---- MODULE Spec2Model ----
(***************************************************************************)
(* Model of the `sf registry deploy` command of lwc-registry-plugin        *)
(* (src/src/commands/registry/deploy.ts): project scan, concurrent         *)
(* dependency resolution with a shared seen set, static resource           *)
(* validation, packaging, upload and cleanup.                              *)
(*                                                                         *)
(* Files are modelled by what the code reads of them: a markup file is the *)
(* sequence of its tag names, a script file the sequence of the module     *)
(* paths of its `import x from '<path>'` statements, a class source its    *)
(* text.  Names, paths and extensions are strings and are taken apart      *)
(* character by character as the code's regular expressions do.            *)
(***************************************************************************)
EXTENDS Integers, Sequences, FiniteSets, TLC

\* ------------------------------------------------------------------------
\* Bounds of the model
\* ------------------------------------------------------------------------

\* Largest number of references (tags, imports, class mentions) a generated
\* project holds in all its source files together.
MaxRefs == 4

\* Cap on the number of collectDependencies invocations of one resolution.
MaxCalls == 6

\* Largest number of lines of a class source given to the dependency scan
\* on its own.
MaxLines == 2

\* Largest number of statements (tags and imports) of a component given
\* to the dependency scan on its own.
MaxStmts == 3

\* ------------------------------------------------------------------------
\* Strings
\* ------------------------------------------------------------------------

Upper == "ABCDEFGHIJKLMNOPQRSTUVWXYZ"
Lower == "abcdefghijklmnopqrstuvwxyz"
Digits == "0123456789"

CharAt(s, i) == SubSeq(s, i, i)

CharsOf(s) == { CharAt(s, i) : i \in 1..Len(s) }

\* [a-zA-Z0-9_], which is also the class \w of the regular expressions.
IdentChars == CharsOf(Upper) \cup CharsOf(Lower) \cup CharsOf(Digits) \cup {"_"}

IsIdent(s) == Len(s) > 0 /\ \A i \in 1..Len(s) : CharAt(s, i) \in IdentChars

StartsWith(s, p) == Len(s) >= Len(p) /\ SubSeq(s, 1, Len(p)) = p

EndsWith(s, p) == Len(s) >= Len(p) /\ SubSeq(s, Len(s) - Len(p) + 1, Len(s)) = p

DropPrefix(s, p) == SubSeq(s, Len(p) + 1, Len(s))

LowerChar(c) ==
  IF c \in CharsOf(Upper)
    THEN CharAt(Lower, CHOOSE i \in 1..Len(Upper) : CharAt(Upper, i) = c)
    ELSE c

RECURSIVE toLowerCase(_)
toLowerCase(s) ==
  IF Len(s) = 0 THEN ""
  ELSE LowerChar(CharAt(s, 1)) \o toLowerCase(SubSeq(s, 2, Len(s)))

\* path.join of a directory and an entry name.
PathJoin(dir, name) == dir \o "/" \o name

\* path.extname of a file name: from the last dot on, and empty when the
\* name has no dot or its only dot is its first character.
extname(base) ==
  LET dots == { i \in 1..Len(base) : CharAt(base, i) = "." }
  IN  IF dots = {} THEN ""
      ELSE LET last == CHOOSE i \in dots : \A j \in dots : j <= i
           IN  IF last = 1 THEN "" ELSE SubSeq(base, last, Len(base))

\* path.basename(file, ext): the name without a trailing ext.
basenameNoExt(file, ext) ==
  IF EndsWith(file, ext) /\ Len(file) > Len(ext)
    THEN SubSeq(file, 1, Len(file) - Len(ext))
    ELSE file

\* ------------------------------------------------------------------------
\* Sequences
\* ------------------------------------------------------------------------

Range(s) == { s[i] : i \in 1..Len(s) }

Includes(s, x) == \E i \in 1..Len(s) : s[i] = x

RECURSIVE Flat(_)
Flat(ss) == IF ss = <<>> THEN <<>> ELSE Head(ss) \o Flat(Tail(ss))

\* [...new Set(s)]: the first occurrence of every element, in order.
RECURSIVE Dedupe(_)
Dedupe(s) ==
  IF s = <<>> THEN <<>>
  ELSE LET r == Dedupe(SubSeq(s, 1, Len(s) - 1))
           x == s[Len(s)]
       IN  IF Includes(r, x) THEN r ELSE Append(r, x)

NoDuplicates(s) == \A i, j \in 1..Len(s) : s[i] = s[j] => i = j

\* ------------------------------------------------------------------------
\* Program constants
\* ------------------------------------------------------------------------

FORBIDDEN_EXTENSIONS ==
  << ".sh", ".bash", ".zsh", ".bat", ".cmd", ".ps1", ".exe", ".scr", ".vbs",
     ".msi", ".php", ".py", ".pl", ".rb", ".jar", ".com", ".wsf" >>

PATHS ==
  [ STATIC_RESOURCES |-> "force-app/main/default/staticresources",
    LWC |-> "force-app/main/default/lwc",
    APEX |-> "force-app/main/default/classes" ]

META_SUFFIX == ".resource-meta.xml"

NoMatch == [ matched |-> FALSE ]
Match(name) == [ matched |-> TRUE, name |-> name ]

\* ------------------------------------------------------------------------
\* The file system the command reads (unchanged during one run)
\* ------------------------------------------------------------------------

\* A node of the file system.  A file's text is the sequence of the
\* statements the code's patterns look at: tag names for markup, module
\* paths of import statements for scripts, source lines for classes.
File(text) == [ kind |-> "file", names |-> <<>>, text |-> text ]
Dir(names) == [ kind |-> "dir", names |-> names, text |-> <<>> ]
\* A directory that exists and cannot be listed (EACCES).
LockedDir == [ kind |-> "locked", names |-> <<>>, text |-> <<>> ]

Ok(value) == [ ok |-> TRUE, value |-> value ]
\* A thrown error: its kind, the path it is about and, for a refused file,
\* the extension named in the message.
Err(code, path) == [ ok |-> FALSE, code |-> code, path |-> path, ext |-> "" ]

\* fs.readdir(path)
readdir(fs, path) ==
  IF path \notin DOMAIN fs THEN Err("ENOENT", path)
  ELSE IF fs[path].kind = "dir" THEN Ok(fs[path].names)
  ELSE IF fs[path].kind = "locked" THEN Err("EACCES", path)
  ELSE Err("ENOTDIR", path)

\* fs.readFile(path, 'utf8')
readFile(fs, path) ==
  IF path \notin DOMAIN fs THEN Err("ENOENT", path)
  ELSE IF fs[path].kind = "file" THEN Ok(fs[path].text)
  ELSE Err("EISDIR", path)

\* Dirent.isDirectory() of the entry `name` of directory `dir`.
isDirectory(fs, dir, name) ==
  /\ PathJoin(dir, name) \in DOMAIN fs
  /\ fs[PathJoin(dir, name)].kind \in {"dir", "locked"}

\* ------------------------------------------------------------------------
\* Dependency extraction
\* ------------------------------------------------------------------------

\* /<c-([a-zA-Z0-9_]+)[\s>]/ on one tag: the name after "c-", which must
\* run to the end of the tag name.
MatchHtmlTag(tag) ==
  IF StartsWith(tag, "c-") /\ IsIdent(DropPrefix(tag, "c-"))
    THEN Match(DropPrefix(tag, "c-")) ELSE NoMatch

\* /import\s+\w+\s+from\s+["']c\/([a-zA-Z0-9_]+)["']/ on one import.
MatchLwcImport(from) ==
  IF StartsWith(from, "c/") /\ IsIdent(DropPrefix(from, "c/"))
    THEN Match(DropPrefix(from, "c/")) ELSE NoMatch

\* The apex pattern capturing the whole path after apex/, method included.
MatchApexImportWhole(from) ==
  IF StartsWith(from, "@salesforce/apex/")
    THEN Match(DropPrefix(from, "@salesforce/apex/")) ELSE NoMatch

\* /import\s+\w+\s+from\s+['"]@salesforce\/apex\/([a-zA-Z0-9_]+)\.[^'"]+['"]/
\* on one import: the class name before the first dot, a method after it.
MatchApexImport(from) ==
  LET prefix == "@salesforce/apex/"
      rest == DropPrefix(from, prefix)
      dots == { i \in 1..Len(rest) : CharAt(rest, i) = "." }
  IN  IF StartsWith(from, prefix) /\ dots # {}
        THEN LET dot == CHOOSE i \in dots : \A j \in dots : i <= j
             IN  IF IsIdent(SubSeq(rest, 1, dot - 1)) /\ dot < Len(rest)
                   THEN Match(SubSeq(rest, 1, dot - 1)) ELSE NoMatch
        ELSE NoMatch

\* /import\s+\w+\s+from\s+["']@salesforce\/resourceUrl\/([a-zA-Z0-9_]+)["']/
MatchResourceImport(from) ==
  LET prefix == "@salesforce/resourceUrl/"
  IN  IF StartsWith(from, prefix) /\ IsIdent(DropPrefix(from, prefix))
        THEN Match(DropPrefix(from, prefix)) ELSE NoMatch

\* The patterns the code searches with, by name.
HtmlTagRegex == "htmlTag"
LwcImportRegex == "lwcImport"
ApexImportRegex == "apexImport"
ResourceImportRegex == "resourceImport"

\* One match attempt of a pattern on a statement.
RegexExec(regex, stmt) ==
  CASE regex = HtmlTagRegex -> MatchHtmlTag(stmt)
    [] regex = LwcImportRegex -> MatchLwcImport(stmt)
    [] regex = ApexImportRegex -> MatchApexImport(stmt)
    [] regex = ResourceImportRegex -> MatchResourceImport(stmt)

\* [...code.matchAll(regex)].map(m => m[1])
MatchAll(text, regex) ==
  LET hits == SelectSeq(text, LAMBDA t : RegexExec(regex, t).matched)
  IN  [ i \in 1..Len(hits) |-> RegexExec(regex, hits[i]).name ]

\* extractDependenciesFromFile: a missing file gives the empty list, any
\* other read error is thrown.
extractDependenciesFromFile(fs, filePath, regex) ==
  LET r == readFile(fs, filePath)
  IN  IF r.ok THEN Ok(Dedupe(MatchAll(r.value, regex)))
      ELSE IF r.code = "ENOENT" THEN Ok(<<>>)
      ELSE r

\* The read errors, other than a missing file, of the files a component's
\* scan opens (Promise.all rejects with whichever of them is raised first).
LwcReadErrors(fs, files) ==
  { r \in { readFile(fs, f) : f \in files } : ~r.ok /\ r.code # "ENOENT" }

LwcFiles(basePathLwc, name) ==
  LET compDir == PathJoin(basePathLwc, name)
  IN  [ htmlFile |-> PathJoin(compDir, name \o ".html"),
        tsFile |-> PathJoin(compDir, name \o ".ts"),
        jsFile |-> PathJoin(compDir, name \o ".js") ]

\* The scan keeping every name it finds, known to the inventory or not.
getLwcDependenciesUnfiltered(fs, basePathLwc, name, params) ==
  LET f == LwcFiles(basePathLwc, name)
      errors == LwcReadErrors(fs, {f.htmlFile, f.tsFile, f.jsFile})
      htmlDeps == extractDependenciesFromFile(fs, f.htmlFile, HtmlTagRegex).value
      tsLwcDeps == extractDependenciesFromFile(fs, f.tsFile, LwcImportRegex).value
      jsLwcDeps == extractDependenciesFromFile(fs, f.jsFile, LwcImportRegex).value
      tsApexDeps == extractDependenciesFromFile(fs, f.tsFile, ApexImportRegex).value
      jsApexDeps == extractDependenciesFromFile(fs, f.jsFile, ApexImportRegex).value
      lwc == Dedupe(htmlDeps \o tsLwcDeps \o jsLwcDeps)
      apex == Dedupe(tsApexDeps \o jsApexDeps)
  IN  IF errors # {} THEN [ ok |-> FALSE, errors |-> errors ]
      ELSE Ok([ i \in 1..Len(lwc) |-> [ name |-> lwc[i], type |-> "component" ] ]
              \o [ i \in 1..Len(apex) |-> [ name |-> apex[i], type |-> "class" ] ])

\* getLwcDependencies: tags of the markup file and c/ imports of the two
\* script files name components, apex imports name classes; a name is kept
\* when the inventory holds it, once per kind and name, in insertion order.
getLwcDependencies(fs, basePathLwc, name, params) ==
  LET f == LwcFiles(basePathLwc, name)
      errors == LwcReadErrors(fs, {f.htmlFile, f.tsFile, f.jsFile})
      htmlDeps == extractDependenciesFromFile(fs, f.htmlFile, HtmlTagRegex).value
      tsLwcDeps == extractDependenciesFromFile(fs, f.tsFile, LwcImportRegex).value
      jsLwcDeps == extractDependenciesFromFile(fs, f.jsFile, LwcImportRegex).value
      tsApexDeps == extractDependenciesFromFile(fs, f.tsFile, ApexImportRegex).value
      jsApexDeps == extractDependenciesFromFile(fs, f.jsFile, ApexImportRegex).value
      allLwcDeps == htmlDeps \o tsLwcDeps \o jsLwcDeps
      allApexDeps == tsApexDeps \o jsApexDeps
      lwc == Dedupe(SelectSeq(allLwcDeps, LAMBDA d : Includes(params.allComponents, d)))
      apex == Dedupe(SelectSeq(allApexDeps, LAMBDA d : Includes(params.allClasses, d)))
  IN  IF errors # {} THEN [ ok |-> FALSE, errors |-> errors ]
      ELSE Ok([ i \in 1..Len(lwc) |-> [ name |-> lwc[i], type |-> "component" ] ]
              \o [ i \in 1..Len(apex) |-> [ name |-> apex[i], type |-> "class" ] ])

\* The test without its word boundaries: the name occurs anywhere.
HasSubstring(line, className) ==
  \E i \in 1..(Len(line) - Len(className) + 1) :
    SubSeq(line, i, i + Len(className) - 1) = className

\* new RegExp(`\\b${className}\\b`).test(line), for a class name made of
\* word characters: an occurrence with no word character on either side.
HasWord(line, className) ==
  \E i \in 1..(Len(line) - Len(className) + 1) :
    /\ SubSeq(line, i, i + Len(className) - 1) = className
    /\ (i = 1 \/ CharAt(line, i - 1) \notin IdentChars)
    /\ (i + Len(className) - 1 = Len(line)
         \/ CharAt(line, i + Len(className)) \notin IdentChars)

\* extractApexDependencies taking a source it cannot read for an empty one.
extractApexDependenciesLenient(fs, clsFilePath, allClassNames, selfClassName) ==
  LET code == readFile(fs, clsFilePath)
  IN  Ok(SelectSeq(allClassNames, LAMBDA className :
           /\ code.ok
           /\ className # selfClassName
           /\ \E l \in 1..Len(code.value) : HasWord(code.value[l], className)))

\* extractApexDependencies: the known class names, other than the class
\* itself, that occur in the source as words; an unreadable source throws.
extractApexDependencies(fs, clsFilePath, allClassNames, selfClassName) ==
  LET code == readFile(fs, clsFilePath)
  IN  IF ~code.ok THEN code
      ELSE Ok(SelectSeq(allClassNames, LAMBDA className :
                /\ className # selfClassName
                /\ \E l \in 1..Len(code.value) : HasWord(code.value[l], className)))

\* getItemDependencies
getItemDependencies(fs, basePathLwc, name, type, params) ==
  IF type = "component" THEN getLwcDependencies(fs, basePathLwc, name, params)
  ELSE IF name \notin DOMAIN params.classNameToDir
    THEN [ ok |-> FALSE, errors |-> { Err("NODIR", name) } ]
  ELSE LET dirClass == params.classNameToDir[name]
           apexDeps == extractApexDependencies(fs, PathJoin(dirClass, name \o ".cls"),
                                               params.allClasses, name)
       IN  IF ~apexDeps.ok THEN [ ok |-> FALSE, errors |-> { apexDeps } ]
           ELSE Ok([ i \in 1..Len(apexDeps.value) |->
                       [ name |-> apexDeps.value[i], type |-> "class" ] ])

\* The two lists put end to end, a name once per file that imports it.
findStaticResourcesNoSet(fs, componentDir, baseName) ==
  LET tsFile == PathJoin(componentDir, baseName \o ".ts")
      jsFile == PathJoin(componentDir, baseName \o ".js")
      tsResults == extractDependenciesFromFile(fs, tsFile, ResourceImportRegex)
      jsResults == extractDependenciesFromFile(fs, jsFile, ResourceImportRegex)
  IN  IF tsResults.ok /\ jsResults.ok
        THEN Ok(tsResults.value \o jsResults.value)
        ELSE [ ok |-> FALSE, errors |-> { r \in {tsResults, jsResults} : ~r.ok } ]

\* findStaticResourcesForComponent: the resourceUrl imports of <dir>/<base>.ts
\* and <dir>/<base>.js, each name once.
findStaticResourcesForComponent(fs, componentDir, baseName) ==
  LET tsFile == PathJoin(componentDir, baseName \o ".ts")
      jsFile == PathJoin(componentDir, baseName \o ".js")
      tsResults == extractDependenciesFromFile(fs, tsFile, ResourceImportRegex)
      jsResults == extractDependenciesFromFile(fs, jsFile, ResourceImportRegex)
  IN  IF tsResults.ok /\ jsResults.ok
        THEN Ok(Dedupe(tsResults.value \o jsResults.value))
        ELSE [ ok |-> FALSE, errors |-> { r \in {tsResults, jsResults} : ~r.ok } ]

\* ------------------------------------------------------------------------
\* Forbidden files
\* ------------------------------------------------------------------------

\* The extension compared as it is written.
ExtensionOfAsWritten(filePath) == extname(filePath)

\* const extension = path.extname(filePath).toLowerCase()
ExtensionOf(filePath) == toLowerCase(extname(filePath))

Forbidden(filePath, extension) ==
  [ ok |-> FALSE, code |-> "FORBIDDEN", path |-> filePath, ext |-> extension ]

\* checkForbiddenFiles over walkDirAsync: the files of the tree in depth-first
\* order of the directory listings; the walk stops at the first refused file
\* or at the first directory that cannot be listed.
RECURSIVE checkForbiddenFiles(_, _)
RECURSIVE walkDirAsync(_, _, _)
checkForbiddenFiles(fs, directoryPath) ==
  LET entries == readdir(fs, directoryPath)
  IN  IF ~entries.ok THEN entries
      ELSE walkDirAsync(fs, directoryPath, entries.value)

walkDirAsync(fs, dir, entries) ==
  IF entries = <<>> THEN Ok(TRUE)
  ELSE LET entryPath == PathJoin(dir, Head(entries))
           extension == ExtensionOf(Head(entries))
           first == IF isDirectory(fs, dir, Head(entries))
                      THEN checkForbiddenFiles(fs, entryPath)
                    ELSE IF Includes(FORBIDDEN_EXTENSIONS, extension)
                      THEN Forbidden(entryPath, extension)
                    ELSE Ok(TRUE)
       IN  IF first.ok THEN walkDirAsync(fs, dir, Tail(entries)) ELSE first

\* ------------------------------------------------------------------------
\* Static resources
\* ------------------------------------------------------------------------

NotFound == [ found |-> FALSE, path |-> "" ]

\* The lookup without the exclusion of descriptors.
findStaticResourceFileAnyMatch(fs, resourceDir, resName) ==
  LET files == readdir(fs, resourceDir)
      hits == IF files.ok
                THEN SelectSeq(files.value, LAMBDA file :
                       file = resName \/ StartsWith(file, resName \o "."))
                ELSE <<>>
  IN  IF hits = <<>> THEN NotFound
      ELSE [ found |-> TRUE, path |-> PathJoin(resourceDir, Head(hits)) ]

\* findStaticResourceFileAsync: the first entry of the resources directory
\* named resName or resName.<anything>, descriptors excluded; null when
\* there is none or the directory cannot be listed.
findStaticResourceFileAsync(fs, resourceDir, resName) ==
  LET files == readdir(fs, resourceDir)
      hits == IF files.ok
                THEN SelectSeq(files.value, LAMBDA file :
                       /\ (file = resName \/ StartsWith(file, resName \o "."))
                       /\ ~EndsWith(file, META_SUFFIX))
                ELSE <<>>
  IN  IF hits = <<>> THEN NotFound
      ELSE [ found |-> TRUE, path |-> PathJoin(resourceDir, Head(hits)) ]

\* fileExistsAndIsFile
fileExistsAndIsFile(fs, filePath) ==
  filePath \in DOMAIN fs /\ fs[filePath].kind = "file"

\* The check without its descriptor half.
CheckStaticResourcePayloadOnly(fs, resName) ==
  IF ~findStaticResourceFileAsync(fs, PATHS.STATIC_RESOURCES, resName).found
    THEN Err("RESOURCE_MISSING", resName)
    ELSE Ok(TRUE)

\* The outcome of one check of validateStaticResources.
CheckStaticResource(fs, resName) ==
  LET resourceDir == PATHS.STATIC_RESOURCES
      metaFile == PathJoin(resourceDir, resName \o META_SUFFIX)
  IN  IF ~findStaticResourceFileAsync(fs, resourceDir, resName).found
        THEN Err("RESOURCE_MISSING", resName)
      ELSE IF ~fileExistsAndIsFile(fs, metaFile)
        THEN Err("META_MISSING", resName)
      ELSE Ok(TRUE)

\* ------------------------------------------------------------------------
\* Project scan
\* ------------------------------------------------------------------------

\* safeListDirNamesAsync: the subdirectories of base; a listing error is
\* rethrown.
safeListDirNamesAsync(fs, base) ==
  LET entries == readdir(fs, base)
  IN  IF ~entries.ok THEN Err("SCAN", base)
      ELSE Ok(SelectSeq(entries.value, LAMBDA e : isDirectory(fs, base, e)))

IsClassFile(file) == EndsWith(file, ".cls") /\ ~EndsWith(file, ".cls-meta.xml")

\* findAllClassesAsync: every <name>.cls of every directory under the classes
\* root, in listing order; classNameToDir keeps the last directory a name was
\* found in.
findAllClassesAsync(fs, basePathApex) ==
  LET classDirs == safeListDirNamesAsync(fs, basePathApex)
      dirPath(d) == PathJoin(basePathApex, d)
      unread == IF classDirs.ok
                  THEN SelectSeq(classDirs.value, LAMBDA d : ~readdir(fs, dirPath(d)).ok)
                  ELSE <<>>
      found == Flat([ i \in 1..Len(classDirs.value) |->
                 LET files == SelectSeq(readdir(fs, dirPath(classDirs.value[i])).value,
                                        IsClassFile)
                 IN  [ j \in 1..Len(files) |->
                        [ className |-> basenameNoExt(files[j], ".cls"),
                          dirPath |-> dirPath(classDirs.value[i]) ] ] ])
      lastOf(c) == CHOOSE i \in 1..Len(found) :
                     /\ found[i].className = c
                     /\ \A j \in 1..Len(found) : found[j].className = c => j <= i
  IN  IF ~classDirs.ok THEN Err("CLASSES", basePathApex)
      ELSE IF unread # <<>> THEN Err("CLASSES", dirPath(Head(unread)))
      ELSE Ok([ allClasses |-> [ i \in 1..Len(found) |-> found[i].className ],
                classNameToDir |-> [ c \in { found[i].className : i \in 1..Len(found) }
                                       |-> found[lastOf(c)].dirPath ] ])

\* ------------------------------------------------------------------------
\* The projects the model is run on
\* ------------------------------------------------------------------------

LwcPath(c) == PathJoin(PATHS.LWC, c)
ApexPath(c) == PathJoin(PATHS.APEX, c)
LwcFile(c, ext) == PathJoin(LwcPath(c), c \o ext)
ClsFile(c) == PathJoin(ApexPath(c), c \o ".cls")

\* Components Foo (JavaScript) and Bar (TypeScript), classes Baz and Qux,
\* each class in a directory of its name.  Two other layouts of the classes
\* root: "shared", where the directory of Qux holds a second Baz.cls, and
\* "homonym", where a class Foo exists beside the component Foo; in the
\* layout "empty" the classes root holds nothing, in "dangling" the entry
\* Qux.cls of the directory of Qux is a link to a file that is not there
\* (listed, and absent when opened), and in "dirsource" the
\* entry Qux.cls of the directory of Qux is itself a directory.
ClassDirs(layout) ==
  CASE layout = "homonym" -> << "Baz", "Qux", "Foo" >>
    [] layout = "empty" -> <<>>
    [] OTHER -> << "Baz", "Qux" >>

ArtifactDirs(layout) ==
  << LwcPath("Foo"), LwcPath("Bar") >>
  \o [ i \in 1..Len(ClassDirs(layout)) |-> ApexPath(ClassDirs(layout)[i]) ]

OwnFiles(dir, layout) ==
  CASE dir = LwcPath("Foo") -> << "Foo.html", "Foo.js", "Foo.js-meta.xml" >>
    [] dir = LwcPath("Bar") -> << "Bar.html", "Bar.ts" >>
    [] dir = ApexPath("Baz") -> << "Baz.cls", "Baz.cls-meta.xml" >>
    [] dir = ApexPath("Qux") ->
         IF layout = "shared"
           THEN << "Baz.cls", "Qux.cls", "Qux.cls-meta.xml" >>
           ELSE << "Qux.cls", "Qux.cls-meta.xml" >>
    [] dir = ApexPath("Foo") -> << "Foo.cls", "Foo.cls-meta.xml" >>

\* The references a project may hold, in the order they stand in their file.
RefCandidates ==
  << [ file |-> LwcFile("Foo", ".html"), stmt |-> "c-Bar" ],
     [ file |-> LwcFile("Foo", ".html"), stmt |-> "c-Foo" ],
     [ file |-> LwcFile("Foo", ".js"), stmt |-> "@salesforce/apex/Baz.run" ],
     [ file |-> LwcFile("Foo", ".js"), stmt |-> "@salesforce/apex/Qux.load" ],
     [ file |-> LwcFile("Foo", ".js"), stmt |-> "@salesforce/resourceUrl/Logo" ],
     [ file |-> LwcFile("Bar", ".html"), stmt |-> "c-Foo" ],
     [ file |-> LwcFile("Bar", ".ts"), stmt |-> "@salesforce/apex/Qux.load" ],
     [ file |-> LwcFile("Bar", ".ts"), stmt |-> "@salesforce/apex/Baz.run" ],
     [ file |-> LwcFile("Bar", ".ts"), stmt |-> "@salesforce/resourceUrl/Logo" ],
     [ file |-> ClsFile("Baz"), stmt |-> "Qux q = new Qux();" ],
     [ file |-> ClsFile("Qux"), stmt |-> "return Baz.run();" ],
     [ file |-> LwcFile("Foo", ".js"), stmt |-> "@salesforce/apex/Foo.run" ],
     [ file |-> ClsFile("Foo"), stmt |-> "Baz.run();" ] >>

\* The references drawn for the plain layout, for the shared one and for
\* the homonym one.
PlainRefs == 1..11
SharedRefs == {3, 4, 10, 11}
HomonymRefs == {1, 3, 10, 12, 13}
DirSourceRefs == {3, 10}

RefSets == { R \in SUBSET PlainRefs : Cardinality(R) <= MaxRefs }

\* Foo uses Bar, Baz and the resource Logo; Baz uses Qux.
ScenarioRefs == {1, 3, 5, 10}

TextOf(refs, file) ==
  LET mine == SelectSeq([ i \in 1..Len(RefCandidates) |-> i ],
                        LAMBDA i : i \in refs /\ RefCandidates[i].file = file)
  IN  [ k \in 1..Len(mine) |-> RefCandidates[mine[k]].stmt ]

\* What an artifact directory holds besides the artifact's own files.
ExtraChoices == { "clean", "nested", "lookalike", "locked" }

ExtraNames(choice) ==
  CASE choice = "clean" -> <<>>
    [] choice = "nested" -> << "scripts" >>
    [] choice = "lookalike" -> << ".sh", "run.sh.txt" >>
    [] choice = "locked" -> << "private", "tool.exe" >>

ExtraNodes(dir, choice) ==
  CASE choice = "clean" -> << >>
    [] choice = "nested" ->
         (PathJoin(dir, "scripts") :> Dir(<< "notes.txt", "deploy.SH" >>))
         @@ (PathJoin(PathJoin(dir, "scripts"), "notes.txt") :> File(<<>>))
         @@ (PathJoin(PathJoin(dir, "scripts"), "deploy.SH") :> File(<<>>))
    [] choice = "lookalike" ->
         (PathJoin(dir, ".sh") :> File(<<>>)) @@ (PathJoin(dir, "run.sh.txt") :> File(<<>>))
    [] choice = "locked" ->
         (PathJoin(dir, "private") :> LockedDir) @@ (PathJoin(dir, "tool.exe") :> File(<<>>))

\* What the static resources directory holds.
StaticChoices ==
  { "complete", "nodir", "empty", "nometa", "onlymeta", "metadir", "prefix", "exact",
    "bundle" }

StaticNodes(choice) ==
  LET d == PATHS.STATIC_RESOURCES
      at(name, node) == PathJoin(d, name) :> node
      meta == "Logo" \o META_SUFFIX
  IN  CASE choice = "complete" ->
             (d :> Dir(<< meta, "Logo.png" >>)) @@ at(meta, File(<<>>)) @@ at("Logo.png", File(<<>>))
        [] choice = "nodir" -> << >>
        [] choice = "empty" -> (d :> Dir(<<>>))
        [] choice = "nometa" -> (d :> Dir(<< "Logo.png" >>)) @@ at("Logo.png", File(<<>>))
        [] choice = "onlymeta" -> (d :> Dir(<< meta >>)) @@ at(meta, File(<<>>))
        [] choice = "metadir" ->
             (d :> Dir(<< "Logo.png", meta >>)) @@ at("Logo.png", File(<<>>)) @@ at(meta, Dir(<<>>))
        [] choice = "prefix" ->
             (d :> Dir(<< "LogoBig.png", meta >>)) @@ at("LogoBig.png", File(<<>>)) @@ at(meta, File(<<>>))
        [] choice = "exact" ->
             (d :> Dir(<< "Logo", meta >>)) @@ at("Logo", File(<<>>)) @@ at(meta, File(<<>>))
        [] choice = "bundle" ->
             (d :> Dir(<< "Logo", meta >>)) @@ at("Logo", Dir(<<>>)) @@ at(meta, File(<<>>))

RECURSIVE Merge(_)
Merge(fns) == IF fns = <<>> THEN << >> ELSE Head(fns) @@ Merge(Tail(fns))

\* A second copy of a class source holds the text of the first.
SourceOf(path) ==
  IF path = PathJoin(ApexPath("Qux"), "Baz.cls") THEN ClsFile("Baz") ELSE path

ArtifactNodes(refs, dir, choice, layout) ==
  LET own == OwnFiles(dir, layout)
      node(path) == IF layout = "dirsource" /\ path = ClsFile("Qux")
                      THEN Dir(<<>>)
                      ELSE File(TextOf(refs, SourceOf(path)))
      there == SelectSeq(own, LAMBDA n :
                 ~(layout = "dangling" /\ PathJoin(dir, n) = ClsFile("Qux")))
  IN  (dir :> Dir(own \o ExtraNames(choice)))
      @@ Merge([ i \in 1..Len(there) |->
                  PathJoin(dir, there[i]) :> node(PathJoin(dir, there[i])) ])
      @@ ExtraNodes(dir, choice)

\* The file system of the project with the given references, directory
\* extras (one choice per artifact directory), static resources and layout
\* of the classes root.
ProjectFs(refs, extras, static, layout) ==
  LET dirs == ArtifactDirs(layout)
  IN  (PATHS.LWC :> Dir(<< "Foo", "Bar" >>))
      @@ (PATHS.APEX :> Dir(ClassDirs(layout)))
      @@ Merge([ i \in 1..Len(dirs) |-> ArtifactNodes(refs, dirs[i], extras[i], layout) ])
      @@ StaticNodes(static)

AllClean == [ i \in 1..5 |-> "clean" ]

\* The file system without the directory `root` and what it holds.
WithoutTree(f, root) ==
  [ p \in { q \in DOMAIN f : q # root /\ ~StartsWith(q, root \o "/") } |-> f[p] ]

\* A project of components only (no classes root), and one whose
\* components root cannot be listed.
RootlessProjects ==
  { WithoutTree(ProjectFs({1, 3}, AllClean, "complete", "plain"), PATHS.APEX),
    (PATHS.LWC :> LockedDir) @@ ProjectFs({1, 3}, AllClean, "complete", "plain") }

Projects ==
  { ProjectFs(refs, AllClean, "complete", "plain") : refs \in RefSets }
  \cup { ProjectFs(ScenarioRefs \cup {12}, AllClean, "complete", "plain") }
  \cup { ProjectFs(refs, AllClean, "complete", "shared") : refs \in SUBSET SharedRefs }
  \cup { ProjectFs(refs, AllClean, "complete", "homonym") : refs \in SUBSET HomonymRefs }
  \cup { ProjectFs({1, 3}, AllClean, "complete", "empty"), StaticNodes("complete") }
  \cup { ProjectFs(refs, AllClean, "complete", "dirsource") : refs \in SUBSET DirSourceRefs }
  \cup { ProjectFs(ScenarioRefs, extras, "complete", "plain") :
           extras \in [ 1..4 -> ExtraChoices ] }
  \cup { ProjectFs(ScenarioRefs, AllClean, static, "plain") : static \in StaticChoices }
  \cup RootlessProjects
  \cup { ProjectFs(refs, AllClean, "complete", "dangling") : refs \in SUBSET DirSourceRefs }

Versions == { "1.0.0" }

\* ------------------------------------------------------------------------
\* State of one deploy run
\* ------------------------------------------------------------------------

VARIABLES
  fs,              \* the project's file system
  phase,           \* where run() stands
  params,          \* scanProject's result: allComponents, allClasses, classNameToDir
  userInput,       \* gatherUserInput's result: name, type, version
  seen,            \* the seen set shared by all collectDependencies calls
  calls,           \* the collectDependencies invocations that passed the seen test
  itemsToZip,      \* the manifest collectDependencies returned to run()
  staticResources, \* the resource names run() hands to validation and packaging
  tmpFile,         \* the temporary archive: "none", "exists" or "deleted"
  archive,         \* the archive paths written by createDeploymentPackage
  requests,        \* number of POST /deploy requests sent
  log,             \* what the command logged
  error,           \* the error the command ended with
  runNo,           \* which resolution of the same root this is
  previous         \* the manifest of the first resolution, when there are two;
                   \* in a download, the file system before the extraction

vars == << fs, phase, params, userInput, seen, calls, itemsToZip, staticResources,
           tmpFile, archive, requests, log, error, runNo, previous >>

NoParams == [ allComponents |-> <<>>, allClasses |-> <<>>, classNameToDir |-> << >> ]
NoInput == [ name |-> "", type |-> "", version |-> "" ]
NoError == Ok(TRUE)

Key(dependenceType, dependenceName) == dependenceType \o ":" \o dependenceName

DirectoryPath(p, dependenceName, dependenceType) ==
  IF dependenceType = "component" THEN PathJoin(PATHS.LWC, dependenceName)
  ELSE p.classNameToDir[dependenceName]

\* One invocation: its arguments, the invocation that made it, where it
\* stands ("forbid": awaiting checkForbiddenFiles, "extract": awaiting the
\* dependency scan, "wait": awaiting its sub-calls), its entry, and per
\* dependency the invocation made for it (0 when that call returned []
\* at once).
NewCall(dep, parent) ==
  [ name |-> dep.name, type |-> dep.type, parent |-> parent, pc |-> "forbid",
    item |-> << >>, kids |-> <<>> ]

\* seen.has(key) with the test lost: every call is taken for a first visit.
SeenHasNever(s, key) == FALSE

\* seen.has(key)
SeenHas(s, key) == key \in s

\* isFirstItem taken to hold as soon as anything was seen.
IsFirstItemNonEmpty(s) == Cardinality(s) >= 1

\* const isFirstItem = seen.size === 1
IsFirstItem(s) == Cardinality(s) = 1

\* The entry with its dependencies cut down to the artifacts not seen yet.
MakeItemPartial(c, dependencies, resources, s, version) ==
  [ name |-> c.name, type |-> c.type,
    dependencies |-> SelectSeq(dependencies, LAMBDA d : Key(d.type, d.name) \notin s),
    staticresources |-> resources,
    version |-> IF Cardinality(s) = 1 /\ version # "" THEN << version >> ELSE <<>> ]

\* The entry built for an invocation; version is a key of the root's entry
\* only, and only when the version given is not empty.
MakeItem(c, dependencies, resources, s, version) ==
  [ name |-> c.name, type |-> c.type, dependencies |-> dependencies,
    staticresources |-> resources,
    version |-> IF IsFirstItem(s) /\ version # "" THEN << version >> ELSE <<>> ]

\* dependencies.map(d => this.collectDependencies(d.name, d.type, params, seen)):
\* the calls are made one after the other, each running up to its first await,
\* that is testing and marking the seen set.
RECURSIVE SpawnAll(_, _, _)
SpawnAll(deps, parent, st) ==
  IF deps = <<>> THEN st
  ELSE LET d == Head(deps)
           key == Key(d.type, d.name)
       IN  IF SeenHas(st.seen, key)
             THEN SpawnAll(Tail(deps), parent, [ st EXCEPT !.kids = Append(@, 0) ])
             ELSE SpawnAll(Tail(deps), parent,
                    [ seen |-> st.seen \cup {key},
                      calls |-> Append(st.calls, NewCall(d, parent)),
                      kids |-> Append(st.kids, Len(st.calls) + 1) ])

\* The entry followed by the entries of the direct sub-calls only.
ResultOfOneLevel(cs, c) ==
  << cs[c].item >>
  \o Flat([ i \in 1..Len(cs[c].kids) |->
              IF cs[c].kids[i] = 0 THEN <<>> ELSE << cs[cs[c].kids[i]].item >> ])

\* The entries of the sub-calls first, the invocation's own entry last.
RECURSIVE ResultOfPostOrder(_, _)
ResultOfPostOrder(cs, c) ==
  Flat([ i \in 1..Len(cs[c].kids) |->
           IF cs[c].kids[i] = 0 THEN <<>> ELSE ResultOfPostOrder(cs, cs[c].kids[i]) ])
  \o << cs[c].item >>

\* return [item, ...subDeps.flat()]
RECURSIVE ResultOf(_, _)
ResultOf(cs, c) ==
  << cs[c].item >>
  \o Flat([ i \in 1..Len(cs[c].kids) |->
              IF cs[c].kids[i] = 0 THEN <<>> ELSE ResultOf(cs, cs[c].kids[i]) ])

\* new Set(itemsToZip.flatMap((item) => item.staticresources))
FlatMapResources(items) ==
  UNION { Range(items[i].staticresources) : i \in 1..Len(items) }

\* path.basename(path)
Basename(path) ==
  LET slashes == { i \in 1..Len(path) : CharAt(path, i) = "/" }
  IN  IF slashes = {} THEN path
      ELSE SubSeq(path, (CHOOSE i \in slashes : \A j \in slashes : j <= i) + 1, Len(path))

TmpFilePath == "tmp/sf-deploy.zip"

\* The archive without the descriptors of the resources.
ArchiveEntriesPayloadOnly(items, resources, metadata, classNameToDir) ==
  LET dirs == [ i \in 1..Len(items) |->
                  [ op |-> "directory",
                    source |-> IF items[i].type = "component"
                                 THEN PathJoin(PATHS.LWC, items[i].name)
                                 ELSE classNameToDir[items[i].name],
                    name |-> items[i].name ] ]
      files(resName) ==
        LET mainFile == findStaticResourceFileAsync(fs, PATHS.STATIC_RESOURCES, resName)
        IN  IF mainFile.found
              THEN { [ op |-> "file", source |-> mainFile.path,
                       name |-> PathJoin("staticresources", Basename(mainFile.path)) ] }
              ELSE {}
  IN  Range(dirs) \cup UNION { files(r) : r \in resources }
      \cup { [ op |-> "append", source |-> "metadata", name |-> "metadata.json" ],
             [ op |-> "append", source |-> "itemsToZip", name |-> "registry-deps.json" ] }

\* The entries createDeploymentPackage hands to the archiver, in order: one
\* directory per manifest entry under the entry's name, payload and
\* descriptor of every resource under staticresources/, then the two JSON
\* documents.
ArchiveEntries(items, resources, metadata, classNameToDir) ==
  LET dirs == [ i \in 1..Len(items) |->
                  [ op |-> "directory",
                    source |-> IF items[i].type = "component"
                                 THEN PathJoin(PATHS.LWC, items[i].name)
                                 ELSE classNameToDir[items[i].name],
                    name |-> items[i].name ] ]
      files(resName) ==
        LET mainFile == findStaticResourceFileAsync(fs, PATHS.STATIC_RESOURCES, resName)
            metaFile == PathJoin(PATHS.STATIC_RESOURCES, resName \o META_SUFFIX)
        IN  (IF mainFile.found
               THEN { [ op |-> "file", source |-> mainFile.path,
                        name |-> PathJoin("staticresources", Basename(mainFile.path)) ] }
               ELSE {})
            \cup { [ op |-> "file", source |-> metaFile,
                     name |-> PathJoin("staticresources", Basename(metaFile)) ] }
  IN  Range(dirs) \cup UNION { files(r) : r \in resources }
      \cup { [ op |-> "append", source |-> "metadata", name |-> "metadata.json" ],
             [ op |-> "append", source |-> "itemsToZip", name |-> "registry-deps.json" ] }

\* The error reported without ending the command.
FailAndGoOn(e) ==
  /\ phase' = phase
  /\ error' = e

\* this.error(...) in run()'s catch: the command ends with the error.
Fail(e) ==
  /\ phase' = "failed"
  /\ error' = e

Init ==
  /\ fs \in Projects
  /\ phase = "scan"
  /\ params = NoParams
  /\ userInput = NoInput
  /\ seen = {}
  /\ calls = <<>>
  /\ itemsToZip = <<>>
  /\ staticResources = {}
  /\ tmpFile = "none"
  /\ archive = {}
  /\ requests = 0
  /\ log = <<>>
  /\ error = NoError
  /\ runNo = 1
  /\ previous = <<>>

\* scanProject
ScanProject ==
  /\ phase = "scan"
  /\ LET comps == safeListDirNamesAsync(fs, PATHS.LWC)
         classes == findAllClassesAsync(fs, PATHS.APEX)
     IN  IF comps.ok /\ classes.ok
           THEN /\ params' = [ allComponents |-> comps.value,
                               allClasses |-> classes.value.allClasses,
                               classNameToDir |-> classes.value.classNameToDir ]
                /\ phase' = "prompt"
                /\ error' = error
           ELSE /\ \E e \in { r \in {comps, classes} : ~r.ok } : Fail(e)
                /\ params' = params
  /\ UNCHANGED << fs, userInput, seen, calls, itemsToZip, staticResources, tmpFile,
                  archive, requests, log, runNo, previous >>

\* gatherUserInput, then the synchronous start of collectDependencies for
\* the chosen root with a fresh seen set.
GatherUserInput ==
  /\ phase = "prompt"
  /\ \E type \in {"component", "class"} :
       LET items == IF type = "component" THEN params.allComponents ELSE params.allClasses
       IN  IF items = <<>>
             THEN /\ Fail(Err("NOITEM", type))
                  /\ UNCHANGED << userInput, seen, calls >>
             ELSE \E name \in Range(items), version \in Versions :
                    /\ userInput' = [ name |-> name, type |-> type, version |-> version ]
                    /\ seen' = { Key(type, name) }
                    /\ calls' = << NewCall([ name |-> name, type |-> type ], 0) >>
                    /\ phase' = "resolve"
                    /\ error' = error
  /\ UNCHANGED << fs, params, itemsToZip, staticResources, tmpFile, archive, requests,
                  log, runNo, previous >>

\* collectDependencies, first await: checkForbiddenFiles of the artifact's
\* directory returns or throws.
CheckForbidden(c) ==
  /\ phase = "resolve"
  /\ calls[c].pc = "forbid"
  /\ LET r == checkForbiddenFiles(fs, DirectoryPath(params, calls[c].name, calls[c].type))
     IN  IF r.ok
           THEN /\ calls' = [ calls EXCEPT ![c].pc = "extract" ]
                /\ UNCHANGED << phase, error >>
           ELSE /\ Fail(r)
                /\ calls' = calls
  /\ UNCHANGED << fs, params, userInput, seen, itemsToZip, staticResources, tmpFile,
                  archive, requests, log, runNo, previous >>

\* collectDependencies, second await: the dependency and resource scans
\* return; the entry is built and the sub-calls are made.
Extract(c) ==
  /\ phase = "resolve"
  /\ calls[c].pc = "extract"
  /\ LET dependencies == getItemDependencies(fs, PATHS.LWC, calls[c].name, calls[c].type, params)
         resources == IF calls[c].type = "component"
                        THEN findStaticResourcesForComponent(
                               fs, DirectoryPath(params, calls[c].name, calls[c].type),
                               calls[c].name)
                        ELSE Ok(<<>>)
     IN  IF dependencies.ok /\ resources.ok
           THEN LET item == MakeItem(calls[c], dependencies.value, resources.value, seen,
                                     userInput.version)
                    st == SpawnAll(dependencies.value, c,
                                   [ seen |-> seen, calls |-> calls, kids |-> <<>> ])
                IN  /\ Len(st.calls) <= MaxCalls
                    /\ seen' = st.seen
                    /\ calls' = [ st.calls EXCEPT ![c].pc = "wait", ![c].item = item,
                                                  ![c].kids = st.kids ]
                    /\ UNCHANGED << phase, error >>
           ELSE /\ \E e \in UNION { r.errors : r \in { x \in {dependencies, resources} : ~x.ok } } :
                     Fail(e)
                /\ UNCHANGED << seen, calls >>
  /\ UNCHANGED << fs, params, userInput, itemsToZip, staticResources, tmpFile,
                  archive, requests, log, runNo, previous >>

\* The root's promise resolved as soon as the root's own entry is built,
\* the sub-calls still running.
ResolveReturnEarly ==
  /\ phase = "resolve"
  /\ calls[1].pc = "wait"
  /\ itemsToZip' = << calls[1].item >>
  /\ staticResources' = FlatMapResources(<< calls[1].item >>)
  /\ phase' = "validate"
  /\ UNCHANGED << fs, params, userInput, seen, calls, tmpFile, archive, requests, log,
                  error, runNo, previous >>

\* Every invocation has returned: the root's promise resolves and run()
\* goes on with the manifest.
ResolveReturn ==
  /\ phase = "resolve"
  /\ \A c \in 1..Len(calls) : calls[c].pc = "wait"
  /\ itemsToZip' = ResultOf(calls, 1)
  /\ staticResources' = FlatMapResources(ResultOf(calls, 1))
  /\ phase' = "validate"
  /\ UNCHANGED << fs, params, userInput, seen, calls, tmpFile, archive, requests, log,
                  error, runNo, previous >>

\* validateStaticResources: one check per resource name, all started at
\* once; the first check to fail ends the command.
ValidateStaticResources ==
  /\ phase = "validate"
  /\ LET failures == { r \in { CheckStaticResource(fs, n) : n \in staticResources } : ~r.ok }
     IN  IF failures = {}
           THEN phase' = "package" /\ error' = error
           ELSE \E e \in failures : Fail(e)
  /\ UNCHANGED << fs, params, userInput, seen, calls, itemsToZip, staticResources,
                  tmpFile, archive, requests, log, runNo, previous >>

\* createDeploymentPackage up to its first await: the temporary file is
\* opened for writing and the manifest's directories are queued.
PackageOpen ==
  /\ phase = "package"
  /\ tmpFile' = "exists"
  /\ phase' = "archive"
  /\ UNCHANGED << fs, params, userInput, seen, calls, itemsToZip, staticResources,
                  archive, requests, log, error, runNo, previous >>

\* createDeploymentPackage from there on: the resources and documents are
\* added, the archive is finalized and the output stream finishes or fails.
PackageFinalize ==
  /\ phase = "archive"
  /\ \E outcome \in {"ok", "error"} :
       IF outcome = "ok"
         THEN /\ archive' = ArchiveEntries(itemsToZip, staticResources, userInput,
                                           params.classNameToDir)
              /\ phase' = "send"
              /\ error' = error
         ELSE /\ Fail(Err("ARCHIVE", TmpFilePath))
              /\ archive' = archive
  /\ UNCHANGED << fs, params, userInput, seen, calls, itemsToZip, staticResources,
                  tmpFile, requests, log, runNo, previous >>

\* sendPackage: one POST /deploy with the archive; a response that is not
\* OK and a network error both end the command.
SendPackage ==
  /\ phase = "send"
  /\ requests' = requests + 1
  /\ \E outcome \in {"ok", "http", "network"} :
       IF outcome = "ok"
         THEN /\ log' = log \o << "send", "response" >>
              /\ phase' = "unlink"
              /\ error' = error
         ELSE /\ log' = Append(log, "send")
              /\ Fail(Err(IF outcome = "http" THEN "HTTP" ELSE "NETWORK", "/deploy"))
  /\ UNCHANGED << fs, params, userInput, seen, calls, itemsToZip, staticResources,
                  tmpFile, archive, runNo, previous >>

\* fs.unlink(zipFilePath), then the success message.
Unlink ==
  /\ phase = "unlink"
  /\ \E outcome \in {"ok", "error"} :
       IF outcome = "ok"
         THEN /\ tmpFile' = "deleted"
              /\ log' = Append(log, "success")
              /\ phase' = "done"
              /\ error' = error
         ELSE /\ Fail(Err("UNLINK", TmpFilePath))
              /\ UNCHANGED << tmpFile, log >>
  /\ UNCHANGED << fs, params, userInput, seen, calls, itemsToZip, staticResources,
                  archive, requests, runNo, previous >>

Next ==
  \/ ScanProject
  \/ GatherUserInput
  \/ \E c \in 1..Len(calls) : CheckForbidden(c)
  \/ \E c \in 1..Len(calls) : Extract(c)
  \/ ResolveReturn
  \/ ValidateStaticResources
  \/ PackageOpen
  \/ PackageFinalize
  \/ SendPackage
  \/ Unlink

Spec == Init /\ [][Next]_vars

\* The same root resolved a second time, against the same files, from a
\* fresh seen set.
ResolveAgain ==
  /\ phase = "validate"
  /\ runNo = 1
  /\ previous' = itemsToZip
  /\ runNo' = 2
  /\ seen' = { Key(userInput.type, userInput.name) }
  /\ calls' = << NewCall([ name |-> userInput.name, type |-> userInput.type ], 0) >>
  /\ itemsToZip' = <<>>
  /\ staticResources' = {}
  /\ phase' = "resolve"
  /\ UNCHANGED << fs, params, userInput, tmpFile, archive, requests, log, error >>

NextTwice ==
  \/ ScanProject
  \/ GatherUserInput
  \/ \E c \in 1..Len(calls) : CheckForbidden(c)
  \/ \E c \in 1..Len(calls) : Extract(c)
  \/ ResolveReturn
  \/ ResolveAgain

SpecTwice == Init /\ [][NextTwice]_vars

\* ------------------------------------------------------------------------
\* The dependency scan of one artifact, on its own
\* ------------------------------------------------------------------------

\* Lines a class source is made of: plain mentions, mentions inside longer
\* identifiers, mentions of the class itself and of unknown names.
ClassLines ==
  { "Qux q = new Qux();", "QuxName n;", "MyQux m = Baz_Qux;", "return Baz.run();",
    "x.Qux_2();", "Qux", "Qux2.go(aQux);", "Zed z = (Qux)y;" }

ClassTexts ==
  UNION { [ 1..n -> ClassLines ] : n \in 0..MaxLines }

\* Inventories of classes: plain, with a name found twice, with names that
\* extend one another.
ClassInventories ==
  { << "Baz", "Qux" >>, << "Baz", "Baz", "Qux", "Qux" >>,
    << "Qux", "QuxName", "Baz" >>, << "Baz", "Qux_2", "Qux2", "Qux" >> }

\* The scan's input for one class: its source, the inventory, its name.
ClassInput(text, classes, self) ==
  [ fs |-> (ApexPath(self) :> Dir(<< self \o ".cls" >>)) @@ (ClsFile(self) :> File(text)),
    params |-> [ allComponents |-> <<>>, allClasses |-> classes,
                 classNameToDir |-> [ c \in Range(classes) |-> ApexPath(self) ] ],
    userInput |-> [ name |-> self, type |-> "class", version |-> "" ] ]

\* Statements a component may hold, in the order they stand in their file:
\* tags and imports of known and unknown names, repeated ones, an apex
\* import without a method, a tag that is no component tag.
StmtCandidates ==
  << [ file |-> ".html", stmt |-> "c-Bar" ],
     [ file |-> ".html", stmt |-> "c-Zed" ],
     [ file |-> ".html", stmt |-> "c-Bar" ],
     [ file |-> ".html", stmt |-> "div" ],
     [ file |-> ".ts", stmt |-> "c/Bar" ],
     [ file |-> ".ts", stmt |-> "@salesforce/apex/Baz.run" ],
     [ file |-> ".ts", stmt |-> "@salesforce/resourceUrl/Logo" ],
     [ file |-> ".ts", stmt |-> "@salesforce/resourceUrl/Icon_2" ],
     [ file |-> ".ts", stmt |-> "@salesforce/apex/Zed.go" ],
     [ file |-> ".js", stmt |-> "c/Foo" ],
     [ file |-> ".js", stmt |-> "c/Zed" ],
     [ file |-> ".js", stmt |-> "@salesforce/apex/Baz.load" ],
     [ file |-> ".js", stmt |-> "@salesforce/apex/Qux" ],
     [ file |-> ".js", stmt |-> "@salesforce/apex/Qux.go" ],
     [ file |-> ".js", stmt |-> "@salesforce/resourceUrl/Logo" ],
     [ file |-> ".js", stmt |-> "@salesforce/resourceUrl/Missing" ],
     [ file |-> ".js", stmt |-> "@salesforce/resourceUrl/Logo" ],
     [ file |-> ".js", stmt |-> "lwc" ] >>

StmtSets ==
  { S \in SUBSET (1..Len(StmtCandidates)) : Cardinality(S) <= MaxStmts }

StmtsOf(S, ext) ==
  LET mine == SelectSeq([ i \in 1..Len(StmtCandidates) |-> i ],
                        LAMBDA i : i \in S /\ StmtCandidates[i].file = ext)
  IN  [ k \in 1..Len(mine) |-> StmtCandidates[mine[k]].stmt ]

\* The scan's input for the component Foo: its markup and JavaScript files,
\* its TypeScript file when it holds a statement, and the inventory.
ComponentInput(S, classes) ==
  LET exts == IF StmtsOf(S, ".ts") = <<>> THEN << ".html", ".js" >>
              ELSE << ".html", ".ts", ".js" >>
  IN  [ fs |-> (LwcPath("Foo") :> Dir([ i \in 1..Len(exts) |-> "Foo" \o exts[i] ]))
               @@ Merge([ i \in 1..Len(exts) |->
                            LwcFile("Foo", exts[i]) :> File(StmtsOf(S, exts[i])) ]),
        params |-> [ allComponents |-> << "Foo", "Bar" >>, allClasses |-> classes,
                     classNameToDir |-> [ c \in Range(classes) |-> ApexPath(c) ] ],
        userInput |-> [ name |-> "Foo", type |-> "component", version |-> "" ] ]

ExtractInputs ==
  { ClassInput(text, classes, self) :
      text \in ClassTexts, classes \in ClassInventories, self \in {"Baz", "Qux"} }
  \cup { ComponentInput(S, classes) :
           S \in StmtSets, classes \in { << "Baz", "Qux" >>, << "Baz", "Baz", "Qux" >> } }

InitExtract ==
  /\ \E in \in ExtractInputs :
       /\ fs = in.fs
       /\ params = in.params
       /\ userInput = in.userInput
  /\ phase = "extract"
  /\ seen = {}
  /\ calls = <<>>
  /\ itemsToZip = <<>>
  /\ staticResources = {}
  /\ tmpFile = "none"
  /\ archive = {}
  /\ requests = 0
  /\ log = <<>>
  /\ error = NoError
  /\ runNo = 1
  /\ previous = <<>>

\* The dependency and resource scans of the artifact, and the entry built
\* from what they return (collectDependencies between its two awaits, for
\* a directory that holds no refused file).
ExtractOne ==
  /\ phase = "extract"
  /\ LET c == [ name |-> userInput.name, type |-> userInput.type ]
         dependencies == getItemDependencies(fs, PATHS.LWC, c.name, c.type, params)
         resources == IF c.type = "component"
                        THEN findStaticResourcesForComponent(
                               fs, DirectoryPath(params, c.name, c.type), c.name)
                        ELSE Ok(<<>>)
     IN  IF dependencies.ok /\ resources.ok
           THEN /\ itemsToZip' = << MakeItem(c, dependencies.value, resources.value,
                                             { Key(c.type, c.name) }, userInput.version) >>
                /\ phase' = "extracted"
                /\ error' = error
           ELSE /\ \E e \in UNION { r.errors : r \in { x \in {dependencies, resources} : ~x.ok } } :
                     Fail(e)
                /\ itemsToZip' = itemsToZip
  /\ UNCHANGED << fs, params, userInput, seen, calls, staticResources, tmpFile, archive,
                  requests, log, runNo, previous >>

SpecExtract == InitExtract /\ [][ExtractOne]_vars

\* ------------------------------------------------------------------------
\* The download command: handleExtraction
\* (src/src/commands/registry/download.ts)
\* ------------------------------------------------------------------------

TmpExtractPath == "tmp/registry-download"
TargetDirectory == "force-app/main/default"

\* path.dirname(path)
Dirname(path) ==
  LET slashes == { i \in 1..Len(path) : CharAt(path, i) = "/" }
  IN  IF slashes = {} THEN "."
      ELSE SubSeq(path, 1, (CHOOSE i \in slashes : \A j \in slashes : j <= i) - 1)

\* getDestination
getDestination(targetDir, itemType, itemName) ==
  IF itemType = "component" THEN PathJoin(PathJoin(targetDir, "lwc"), itemName)
  ELSE PathJoin(PathJoin(targetDir, "classes"), itemName)

\* getItemTypeFromFiles: a directory with a .cls file is a class, else one
\* with a .ts or .js file is a component, else the command's error is
\* raised.
getItemTypeFromFiles(f, dirPath) ==
  LET files == readdir(f, dirPath).value
  IN  IF \E i \in 1..Len(files) : EndsWith(files[i], ".cls") THEN Ok("class")
      ELSE IF \E i \in 1..Len(files) : EndsWith(files[i], ".ts") \/ EndsWith(files[i], ".js")
        THEN Ok("component")
      ELSE Err("UNRECOGNISED", dirPath)

\* fs.existsSync(path)
existsSync(f, path) == path \in DOMAIN f

\* fsExtra.mkdirpSync(dir), for a directory whose parent exists.
mkdirpSync(f, dir) ==
  IF dir \in DOMAIN f THEN f
  ELSE (dir :> Dir(<<>>))
       @@ [ p \in DOMAIN f |->
              IF p = Dirname(dir) THEN Dir(Append(f[p].names, Basename(dir))) ELSE f[p] ]

\* fsExtra.move(src, dest, { overwrite: false }) for a destination that
\* does not exist: the tree below src becomes the tree below dest, the
\* parent of dest being created when it is missing.
move(f, src, dest) ==
  LET moved == { p \in DOMAIN f : p = src \/ StartsWith(p, src \o "/") }
      to(p) == dest \o DropPrefix(p, src)
      g == mkdirpSync(f, Dirname(dest))
      kept == [ p \in DOMAIN g \ moved |->
                  IF p = Dirname(src)
                    THEN Dir(SelectSeq(g[p].names, LAMBDA n : n # Basename(src)))
                  ELSE IF p = Dirname(dest)
                    THEN Dir(Append(g[p].names, Basename(dest)))
                  ELSE g[p] ]
  IN  [ p \in { to(q) : q \in moved } |-> f[CHOOSE q \in moved : to(q) = p] ] @@ kept

\* fsExtra.remove(root) of safeRemove
remove(f, root) ==
  [ p \in { q \in DOMAIN f : q # root /\ ~StartsWith(q, root \o "/") } |-> f[p] ]

RECURSIVE MoveEach(_, _)
MoveEach(f, moves) ==
  IF moves = <<>> THEN f
  ELSE MoveEach(move(f, Head(moves).source, Head(moves).dest), Tail(moves))

\* What the downloaded archive was unpacked to: any of a component Foo, a
\* class Baz and a directory Odd of neither kind, with or without static
\* resources.
ExtractedItems == << "Baz", "Foo", "Odd" >>

ExtractedFiles(item) ==
  CASE item = "Foo" -> << "Foo.html", "Foo.js" >>
    [] item = "Baz" -> << "Baz.cls", "Baz.cls-meta.xml" >>
    [] item = "Odd" -> << "readme.txt" >>

ExtractedResources == << "Logo.png", "Logo.resource-meta.xml" >>

TreeAt(dir, files, text) ==
  (dir :> Dir(files))
  @@ Merge([ i \in 1..Len(files) |-> PathJoin(dir, files[i]) :> File(<< text >>) ])

ExtractedFs(items, withResources) ==
  LET names == SelectSeq(ExtractedItems, LAMBDA n : n \in items)
                 \o (IF withResources THEN << "staticresources" >> ELSE <<>>)
  IN  (TmpExtractPath :> Dir(names))
      @@ Merge([ i \in 1..Len(names) |->
                   IF names[i] = "staticresources"
                     THEN TreeAt(PathJoin(TmpExtractPath, names[i]), ExtractedResources, "new")
                     ELSE TreeAt(PathJoin(TmpExtractPath, names[i]),
                                 ExtractedFiles(names[i]), "new") ])

\* What the target directory holds before the extraction.
TargetChoices == { "lwcFoo", "classesBaz", "logo", "resources" }

TargetFs(has) ==
  LET res == PathJoin(TargetDirectory, "staticresources")
      top == (IF "lwcFoo" \in has THEN << "lwc" >> ELSE <<>>)
             \o (IF "classesBaz" \in has THEN << "classes" >> ELSE <<>>)
             \o (IF has \cap {"logo", "resources"} # {} THEN << "staticresources" >> ELSE <<>>)
  IN  (TargetDirectory :> Dir(top))
      @@ (IF "lwcFoo" \in has
            THEN (PathJoin(TargetDirectory, "lwc") :> Dir(<< "Foo" >>))
                 @@ TreeAt(getDestination(TargetDirectory, "component", "Foo"), << "Foo.js" >>, "old")
            ELSE << >>)
      @@ (IF "classesBaz" \in has
            THEN (PathJoin(TargetDirectory, "classes") :> Dir(<< "Baz" >>))
                 @@ TreeAt(getDestination(TargetDirectory, "class", "Baz"), << "Baz.cls" >>, "old")
            ELSE << >>)
      @@ (IF "logo" \in has THEN TreeAt(res, << "Logo.png" >>, "old")
          ELSE IF "resources" \in has THEN (res :> Dir(<<>>))
          ELSE << >>)

DownloadInputs ==
  { ExtractedFs(items, withResources) @@ TargetFs(has) :
      items \in SUBSET Range(ExtractedItems), withResources \in BOOLEAN,
      has \in SUBSET TargetChoices }

InitDownload ==
  /\ fs \in DownloadInputs
  /\ previous = fs
  /\ phase = "items"
  /\ params = NoParams
  /\ userInput = NoInput
  /\ seen = {}
  /\ calls = <<>>
  /\ itemsToZip = <<>>
  /\ staticResources = {}
  /\ tmpFile = "none"
  /\ archive = {}
  /\ requests = 0
  /\ log = <<>>
  /\ error = NoError
  /\ runNo = 1

\* One callback of a map: what it moves, and whether the move is under way
\* ("move") or done ("moved").
Moving(name, type, source, dest) ==
  [ name |-> name, type |-> type, source |-> source, dest |-> dest, pc |-> "move" ]

\* The listing of the extracted items.
extractedDirs(f) ==
  SelectSeq(readdir(f, TmpExtractPath).value,
            LAMBDA e : isDirectory(f, TmpExtractPath, e) /\ e # "staticresources")

\* The callback of extractedDirs.map up to its await: the kind of the item
\* is read off its files and its destination is tested; this.error throws
\* in both cases, and the catch of the callback throws again.
StartItem(f, itemName) ==
  LET sourceDir == PathJoin(TmpExtractPath, itemName)
      itemType == getItemTypeFromFiles(f, sourceDir)
      destinationDir == getDestination(TargetDirectory, itemType.value, itemName)
  IN  IF ~itemType.ok THEN itemType
      ELSE IF existsSync(f, destinationDir) THEN Err("EXISTS", destinationDir)
      ELSE Ok(Moving(itemName, itemType.value, sourceDir, destinationDir))

\* handleExtraction, step 1 up to the await of Promise.all: every callback
\* runs to its await or throws.  When one has thrown, Promise.all rejects,
\* downloadAndExtract reports the error and removes the extraction
\* directory while the moves already started are under way: any of them
\* may have completed.
HandleItems ==
  /\ phase = "items"
  /\ LET dirs == extractedDirs(fs)
         started == [ i \in 1..Len(dirs) |-> StartItem(fs, dirs[i]) ]
         thrown == SelectSeq(started, LAMBDA r : ~r.ok)
         begun == SelectSeq(started, LAMBDA r : r.ok)
     IN  IF thrown = <<>>
           THEN /\ calls' = [ i \in 1..Len(begun) |-> begun[i].value ]
                /\ phase' = "moving"
                /\ UNCHANGED << fs, log, error >>
           ELSE /\ \E done \in SUBSET (1..Len(begun)) :
                     LET moves == SelectSeq([ i \in 1..Len(begun) |-> i ], LAMBDA i : i \in done)
                     IN  /\ fs' = remove(MoveEach(fs, [ k \in 1..Len(moves) |->
                                                          begun[moves[k]].value ]),
                                         TmpExtractPath)
                         /\ log' = [ k \in 1..Len(moves) |-> "extracted" ]
                /\ Fail(Head(thrown))
                /\ calls' = calls
  /\ UNCHANGED << params, userInput, seen, itemsToZip, staticResources, tmpFile, archive,
                  requests, runNo, previous >>

\* await fsExtra.move(sourceDir, destinationDir), then the log of the item.
MoveItem(c) ==
  /\ phase = "moving"
  /\ calls[c].pc = "move"
  /\ fs' = move(fs, calls[c].source, calls[c].dest)
  /\ calls' = [ calls EXCEPT ![c].pc = "moved" ]
  /\ log' = Append(log, "extracted")
  /\ UNCHANGED << phase, params, userInput, seen, itemsToZip, staticResources, tmpFile,
                  archive, requests, error, runNo, previous >>

\* handleExtraction, step 2 up to the await of Promise.all: the target of
\* the resources is created and every copyStaticResource runs to its await,
\* or logs its warning and returns when the destination exists.
HandleStaticResources ==
  /\ phase = "moving"
  /\ \A c \in 1..Len(calls) : calls[c].pc # "move"
  /\ LET staticResExtracted == PathJoin(TmpExtractPath, "staticresources")
         staticResTarget == PathJoin(TargetDirectory, "staticresources")
     IN  IF ~existsSync(fs, staticResExtracted)
           THEN /\ calls' = <<>>
                /\ UNCHANGED << fs, log >>
           ELSE LET resFiles == readdir(fs, staticResExtracted).value
                    present(file) == existsSync(fs, PathJoin(staticResTarget, file))
                    copies == SelectSeq(resFiles, LAMBDA file : ~present(file))
                    warned == SelectSeq(resFiles, present)
                IN  /\ fs' = mkdirpSync(fs, staticResTarget)
                    /\ calls' = [ i \in 1..Len(copies) |->
                                    Moving(copies[i], "staticresource",
                                           PathJoin(staticResExtracted, copies[i]),
                                           PathJoin(staticResTarget, copies[i])) ]
                    /\ log' = log \o [ i \in 1..Len(warned) |-> "warning" ]
  /\ phase' = "copying"
  /\ UNCHANGED << params, userInput, seen, itemsToZip, staticResources, tmpFile, archive,
                  requests, error, runNo, previous >>

\* copyStaticResource: await fsExtra.move(src, dest), then its log.
CopyStaticResource(c) ==
  /\ phase = "copying"
  /\ calls[c].pc = "move"
  /\ fs' = move(fs, calls[c].source, calls[c].dest)
  /\ calls' = [ calls EXCEPT ![c].pc = "moved" ]
  /\ log' = Append(log, "copied")
  /\ UNCHANGED << phase, params, userInput, seen, itemsToZip, staticResources, tmpFile,
                  archive, requests, error, runNo, previous >>

\* handleExtraction has returned: the success message, then the finally
\* block of downloadAndExtract removes the extraction directory.
FinishDownload ==
  /\ phase = "copying"
  /\ \A c \in 1..Len(calls) : calls[c].pc # "move"
  /\ log' = Append(log, "success")
  /\ fs' = remove(fs, TmpExtractPath)
  /\ phase' = "done"
  /\ UNCHANGED << params, userInput, seen, calls, itemsToZip, staticResources, tmpFile,
                  archive, requests, error, runNo, previous >>

NextDownload ==
  \/ HandleItems
  \/ \E c \in 1..Len(calls) : MoveItem(c)
  \/ HandleStaticResources
  \/ \E c \in 1..Len(calls) : CopyStaticResource(c)
  \/ FinishDownload

SpecDownload == InitDownload /\ [][NextDownload]_vars

\* ------------------------------------------------------------------------
\* Vocabulary of the properties
\* ------------------------------------------------------------------------

Artifact(name, type) == [ name |-> name, type |-> type ]

Root == Artifact(userInput.name, userInput.type)

Inventory ==
  { Artifact(n, "component") : n \in Range(params.allComponents) }
  \cup { Artifact(n, "class") : n \in Range(params.allClasses) }

\* collectDependencies has returned a manifest to its caller.
Returned == itemsToZip # <<>>

Entries(items) == Range(items)

EntryArtifacts(items) == { Artifact(items[i].name, items[i].type) : i \in 1..Len(items) }

EntryKeys(items) == [ i \in 1..Len(items) |-> Key(items[i].type, items[i].name) ]

\* The direct dependency edges of an artifact, as extraction finds them.
DirectDeps(a) ==
  LET r == getItemDependencies(fs, PATHS.LWC, a.name, a.type, params)
  IN  IF r.ok THEN Range(r.value) ELSE {}

RECURSIVE ReachableFrom(_)
ReachableFrom(S) ==
  LET T == S \cup UNION { DirectDeps(a) : a \in S }
  IN  IF T = S THEN S ELSE ReachableFrom(T)

\* The artifacts for which collectDependencies went past the seen test.
Visited == { Artifact(calls[c].name, calls[c].type) : c \in 1..Len(calls) }

\* The refused files anywhere under an artifact's directory.
ForbiddenFilesOf(a) ==
  LET dir == DirectoryPath(params, a.name, a.type)
  IN  { f \in DOMAIN fs :
          /\ StartsWith(f, dir \o "/")
          /\ fs[f].kind = "file"
          /\ Includes(FORBIDDEN_EXTENSIONS, toLowerCase(extname(Basename(f)))) }

Terminated == phase \in {"done", "failed"}

\* ------------------------------------------------------------------------
\* C1
\* ------------------------------------------------------------------------

\* C1: a manifest returned by collectDependencies holds every kind:name pair
\* at most once, whatever the interleaving of the concurrent recursive calls.
C1_NoDuplicateEntries == Returned => NoDuplicates(EntryKeys(itemsToZip))

\* A manifest in which two different entries name the same dependency.
C1_Witness ==
  /\ Returned
  /\ \E i, j \in 1..Len(itemsToZip) :
       /\ i # j
       /\ Range(itemsToZip[i].dependencies) \cap Range(itemsToZip[j].dependencies) # {}

\* ------------------------------------------------------------------------
\* C2
\* ------------------------------------------------------------------------

PayloadPresent(resName) ==
  /\ readdir(fs, PATHS.STATIC_RESOURCES).ok
  /\ \E file \in Range(readdir(fs, PATHS.STATIC_RESOURCES).value) :
       /\ (file = resName \/ StartsWith(file, resName \o "."))
       /\ ~EndsWith(file, META_SUFFIX)

DescriptorPresent(resName) ==
  LET metaFile == PathJoin(PATHS.STATIC_RESOURCES, resName \o META_SUFFIX)
  IN  metaFile \in DOMAIN fs /\ fs[metaFile].kind = "file"

IncompleteResources(items) ==
  { r \in FlatMapResources(items) : ~PayloadPresent(r) \/ ~DescriptorPresent(r) }

\* C2: when a resource referenced by the manifest lacks its payload or its
\* descriptor, validation fails: createDeploymentPackage is never invoked
\* (no temporary file, no archive) and no upload request is sent.
C2_ValidationGate ==
  (Returned /\ IncompleteResources(itemsToZip) # {}) =>
     /\ phase \in {"validate", "failed"}
     /\ tmpFile = "none"
     /\ archive = {}
     /\ requests = 0
     /\ phase = "failed" => error.code \in {"RESOURCE_MISSING", "META_MISSING"}

\* Validation has refused a manifest whose resource has no descriptor.
C2_Witness ==
  /\ Returned
  /\ phase = "failed"
  /\ error.code = "META_MISSING"
  /\ error.path \in IncompleteResources(itemsToZip)

\* ------------------------------------------------------------------------
\* C3
\* ------------------------------------------------------------------------

SomeVisitedForbidden == \E a \in Visited : ForbiddenFilesOf(a) # {}

NamesForbiddenFile(e) ==
  /\ e.code = "FORBIDDEN"
  /\ \E a \in Visited : e.path \in ForbiddenFilesOf(a)
  /\ e.ext = toLowerCase(extname(Basename(e.path)))

\* C3 as stated: a refused file under a visited artifact ends the deploy with
\* an error naming a refused file and its extension; no manifest, no archive,
\* no upload.
C3_AsStated ==
  SomeVisitedForbidden =>
     /\ ~Returned /\ tmpFile = "none" /\ archive = {} /\ requests = 0
     /\ phase \in {"resolve", "failed"}
     /\ phase = "failed" => NamesForbiddenFile(error)

\* The read and listing errors a resolution can end with.
ResolutionIOErrors == { "EACCES", "ENOENT", "ENOTDIR", "EISDIR", "NODIR" }

\* C3 (amended): a refused file under a visited artifact ends the deploy in
\* resolution with no manifest, no archive and no upload; the error names a
\* refused file of a visited artifact and its lower-cased extension, unless
\* a read or listing error of the resolution was raised first, and then the
\* deploy ends with that error.
C3_ForbiddenAborts ==
  SomeVisitedForbidden =>
     /\ ~Returned /\ tmpFile = "none" /\ archive = {} /\ requests = 0
     /\ phase \in {"resolve", "failed"}
     /\ phase = "failed" =>
          (NamesForbiddenFile(error) \/ error.code \in ResolutionIOErrors)

\* The deploy ended on a refused file of a dependency, found below the
\* artifact's directory and written in upper case.
C3_Witness ==
  /\ phase = "failed"
  /\ NamesForbiddenFile(error)
  /\ error.ext = ".sh"
  /\ extname(Basename(error.path)) = ".SH"
  /\ ~StartsWith(error.path, DirectoryPath(params, Root.name, Root.type) \o "/")

\* ------------------------------------------------------------------------
\* C4
\* ------------------------------------------------------------------------

\* C4: the entries of a returned manifest are exactly the artifacts reachable
\* from the root over direct dependency edges.
C4_TransitiveClosure ==
  Returned => EntryArtifacts(itemsToZip) = ReachableFrom({Root})

\* A manifest reaching an artifact two edges away while another artifact of
\* the inventory stays out.
C4_Witness ==
  /\ Returned
  /\ Inventory \ EntryArtifacts(itemsToZip) # {}
  /\ \E a \in EntryArtifacts(itemsToZip) : a # Root /\ a \notin DirectDeps(Root)

\* ------------------------------------------------------------------------
\* C5
\* ------------------------------------------------------------------------

Foo == Artifact("Foo", "component")
Bar == Artifact("Bar", "component")
Baz == Artifact("Baz", "class")
Qux == Artifact("Qux", "class")

\* The statements of a source file, none when the file does not exist.
TextAt(path) == IF path \in DOMAIN fs THEN fs[path].text ELSE <<>>

\* Foo's markup uses <c-Bar>, its script imports a method of Baz and the
\* resource Logo; Bar references nothing; Baz's source mentions Qux; Qux's
\* source mentions no class.
FooScenario ==
  /\ Root = Foo
  /\ params.allComponents = << "Foo", "Bar" >>
  /\ params.allClasses = << "Baz", "Qux" >>
  /\ TextAt(LwcFile("Foo", ".html")) = << "c-Bar" >>
  /\ TextAt(LwcFile("Foo", ".js")) =
       << "@salesforce/apex/Baz.run", "@salesforce/resourceUrl/Logo" >>
  /\ TextAt(LwcFile("Foo", ".ts")) = <<>>
  /\ TextAt(LwcFile("Bar", ".html")) = <<>>
  /\ TextAt(LwcFile("Bar", ".ts")) = <<>>
  /\ TextAt(LwcFile("Bar", ".js")) = <<>>
  /\ TextAt(ClsFile("Baz")) = << "Qux q = new Qux();" >>
  /\ TextAt(ClsFile("Qux")) = <<>>

Entry(a, dependencies, resources, version) ==
  [ name |-> a.name, type |-> a.type, dependencies |-> dependencies,
    staticresources |-> resources, version |-> version ]

\* C5: in the Foo scenario the manifest has exactly four entries: Foo with
\* dependencies Bar and Baz, resource Logo and the version; Bar without
\* dependencies; Baz with dependency Qux; Qux without dependencies.
C5_FooScenario ==
  (Returned /\ FooScenario) =>
     /\ Len(itemsToZip) = 4
     /\ Entries(itemsToZip) =
          { Entry(Foo, << Bar, Baz >>, << "Logo" >>, << userInput.version >>),
            Entry(Bar, <<>>, <<>>, <<>>),
            Entry(Baz, << Qux >>, <<>>, <<>>),
            Entry(Qux, <<>>, <<>>, <<>>) }

C5_Witness == Returned /\ FooScenario /\ phase = "done"

\* ------------------------------------------------------------------------
\* C6
\* ------------------------------------------------------------------------

\* C6: with a non-empty version, the root's entry carries the version and no
\* other entry of the manifest does.
C6_VersionOnRootOnly ==
  (Returned /\ userInput.version # "") =>
     /\ itemsToZip[1].name = userInput.name /\ itemsToZip[1].type = userInput.type
     /\ \A i \in 1..Len(itemsToZip) :
          itemsToZip[i].version =
            IF Artifact(itemsToZip[i].name, itemsToZip[i].type) = Root
              THEN << userInput.version >> ELSE <<>>

\* A manifest of at least three entries, the root's carrying the version.
C6_Witness ==
  /\ Returned
  /\ Len(itemsToZip) >= 3
  /\ itemsToZip[1].version = << userInput.version >>
  /\ userInput.version # ""

\* ------------------------------------------------------------------------
\* C7
\* ------------------------------------------------------------------------

\* C7: once the command has ended, a temporary archive that was created no
\* longer exists.
C7_TempFileRemoved == (Terminated /\ tmpFile # "none") => tmpFile = "deleted"

\* ------------------------------------------------------------------------
\* C8
\* ------------------------------------------------------------------------

CallKeys == [ c \in 1..Len(calls) |-> Key(calls[c].type, calls[c].name) ]

Unseen == { a \in Inventory : Key(a.type, a.name) \notin seen }

RECURSIVE Sum(_)
Sum(ns) == IF ns = <<>> THEN 0 ELSE Head(ns) + Sum(Tail(ns))

\* What is left to do in a resolution: three for every artifact not seen
\* yet, and for every invocation the awaits it still has to pass.
Remaining ==
  3 * Cardinality(Unseen)
  + Sum([ c \in 1..Len(calls) |->
            CASE calls[c].pc = "forbid" -> 2
              [] calls[c].pc = "extract" -> 1
              [] calls[c].pc = "wait" -> 0 ])

\* Some step of the resolution can be taken: an invocation awaits one of
\* its two scans (the sub-calls of the second fit under the cap of the
\* model, being calls for artifacts not seen yet), or all have returned.
CanStep ==
  \/ \E c \in 1..Len(calls) : calls[c].pc = "forbid"
  \/ \E c \in 1..Len(calls) :
       calls[c].pc = "extract" /\ Len(calls) + Cardinality(Unseen) <= MaxCalls
  \/ \A c \in 1..Len(calls) : calls[c].pc = "wait"

\* C8: collectDependencies terminates, cycles and self-references included:
\* no artifact is expanded twice, a resolution under way can always take a
\* step, and every step that does not end it brings it strictly closer to
\* its end (the work remaining decreases and is never negative).
C8_Terminates ==
  /\ [](phase = "resolve" =>
          /\ NoDuplicates(CallKeys)
          /\ Len(calls) < MaxCalls
          /\ Remaining >= 0
          /\ CanStep)
  /\ [][(phase = "resolve" /\ phase' = "resolve") => Remaining' < Remaining]_vars

\* A resolution has returned a manifest with an artifact that names itself
\* and two artifacts that name each other.
C8_Witness ==
  /\ Returned
  /\ \E a \in EntryArtifacts(itemsToZip) : a \in DirectDeps(a)
  /\ \E a, b \in EntryArtifacts(itemsToZip) :
       a # b /\ b \in DirectDeps(a) /\ a \in DirectDeps(b)

\* ------------------------------------------------------------------------
\* C9
\* ------------------------------------------------------------------------

MutualWithRoot == { b \in Inventory : b # Root /\ b \in DirectDeps(Root) /\ Root \in DirectDeps(b) }

EntryOf(items, a) == CHOOSE e \in Entries(items) : e.name = a.name /\ e.type = a.type

\* C9 as stated: with A and B referencing each other, the manifest resolved
\* from A holds both, and the two entries do not record both references.
C9_AsStated ==
  Returned =>
    \A b \in MutualWithRoot :
      /\ { Root, b } \subseteq EntryArtifacts(itemsToZip)
      /\ ~ ( b \in Range(EntryOf(itemsToZip, Root).dependencies)
             /\ Root \in Range(EntryOf(itemsToZip, b).dependencies) )

\* C9 (amended): with A and B referencing each other, resolving from A ends
\* without any error about the cycle and the manifest holds both A and B,
\* each with its complete dependency list: A's entry names B and B's entry
\* names A.
C9_MutualComplete ==
  /\ Returned =>
       \A b \in MutualWithRoot :
         /\ { Root, b } \subseteq EntryArtifacts(itemsToZip)
         /\ Range(EntryOf(itemsToZip, Root).dependencies) = DirectDeps(Root)
         /\ Range(EntryOf(itemsToZip, b).dependencies) = DirectDeps(b)
  /\ (phase = "failed" /\ calls # <<>> /\ MutualWithRoot # {}) =>
       error.code \in {"FORBIDDEN", "EACCES", "RESOURCE_MISSING", "META_MISSING",
                       "ARCHIVE", "HTTP", "NETWORK", "UNLINK"}

C9_Witness ==
  /\ Returned
  /\ MutualWithRoot # {}
  /\ phase = "done"

\* ------------------------------------------------------------------------
\* C10
\* ------------------------------------------------------------------------

\* C10: the second resolution of the same root against the same files
\* returns a manifest with the same set of entries as the first, whatever
\* the interleavings of the two.
C10_SameMembership ==
  (runNo = 2 /\ Returned) => Entries(itemsToZip) = Entries(previous)

\* Two resolutions of a root with a dependency shared by two branches.
C10_Witness ==
  /\ runNo = 2
  /\ Returned
  /\ Len(itemsToZip) = 4
  /\ \E i, j \in 1..Len(itemsToZip) :
       /\ i # j
       /\ Range(itemsToZip[i].dependencies) \cap Range(itemsToZip[j].dependencies) # {}

\* ------------------------------------------------------------------------
\* C11
\* ------------------------------------------------------------------------

\* The paths of the tree below an artifact's directory, the directory
\* included.
TreeOf(a) ==
  LET dir == DirectoryPath(params, a.name, a.type)
  IN  { f \in DOMAIN fs : f = dir \/ StartsWith(f, dir \o "/") }

\* The source files the dependency scan of an artifact opens.
SourcesOf(a) ==
  IF a.type = "component"
    THEN { LwcFile(a.name, ".html"), LwcFile(a.name, ".ts"), LwcFile(a.name, ".js") }
    ELSE { PathJoin(DirectoryPath(params, a.name, a.type), a.name \o ".cls") }

\* A step of the artifact's resolution is bound to fail: a refused file or
\* a directory that cannot be listed in its tree, a class source that is
\* missing or is not a file, a component source that is not a file.
ResolutionFails(a) ==
  \/ ForbiddenFilesOf(a) # {}
  \/ \E f \in TreeOf(a) : fs[f].kind = "locked"
  \/ \E f \in SourcesOf(a) :
       IF f \in DOMAIN fs THEN fs[f].kind # "file" ELSE a.type = "class"

\* The errors a resolution ends with.
ResolutionErrors == { "FORBIDDEN", "EACCES", "ENOENT", "ENOTDIR", "EISDIR", "NODIR" }

\* C11: when a step of the resolution fails for any visited artifact, in any
\* branch, collectDependencies returns no manifest: the run stays in
\* resolution or ends in error there, and never reaches validation,
\* packaging or upload; a run ended by a resolution error holds no manifest.
C11_NoPartialManifest ==
  /\ (\E a \in Visited : ResolutionFails(a)) =>
        /\ ~Returned
        /\ phase \in {"resolve", "failed"}
        /\ tmpFile = "none" /\ archive = {} /\ requests = 0
  /\ (phase = "failed" /\ error.code \in ResolutionErrors) =>
        ~Returned /\ tmpFile = "none" /\ archive = {} /\ requests = 0

\* The run ended on the unreadable source of a class two edges from the
\* root, after other branches had built their entries.
C11_Witness ==
  /\ phase = "failed"
  /\ error.code = "EISDIR"
  /\ Root = Foo
  /\ \E c \in 1..Len(calls) : calls[c].pc = "wait"
  /\ ~Returned

\* ------------------------------------------------------------------------
\* C12
\* ------------------------------------------------------------------------

\* The tree below a directory: every path relative to it, with its node.
ContentsOf(dir) ==
  { [ path |-> DropPrefix(f, dir \o "/"), node |-> fs[f] ] :
      f \in { g \in DOMAIN fs : StartsWith(g, dir \o "/") } }

\* archive.directory(source, name): the tree below source, stored under the
\* prefix name.
StoredBy(entry) ==
  { [ path |-> PathJoin(entry.name, c.path), node |-> c.node ] : c \in ContentsOf(entry.source) }

\* What unpacking the archive gives: everything its directory entries
\* stored.
Unpacked(entries) ==
  UNION { StoredBy(e) : e \in { x \in entries : x.op = "directory" } }

\* The unpacked tree below the top-level directory of the given name.
UnpackedDir(entries, name) ==
  { [ path |-> DropPrefix(u.path, name \o "/"), node |-> u.node ] :
      u \in { v \in Unpacked(entries) : StartsWith(v.path, name \o "/") } }

SourceDirOf(item) == DirectoryPath(params, item.name, item.type)

Packaged == phase \in {"send", "unlink", "done"}

\* C12: once the archive is written, unpacking it gives for every manifest
\* entry a directory named after the entry whose contents are exactly those
\* of the entry's source directory.
C12_RoundTrip ==
  Packaged =>
    \A i \in 1..Len(itemsToZip) :
      UnpackedDir(archive, itemsToZip[i].name) = ContentsOf(SourceDirOf(itemsToZip[i]))

\* ------------------------------------------------------------------------
\* C13
\* ------------------------------------------------------------------------

\* C13: validateStaticResources succeeds exactly when every resource named
\* by the manifest has, in the static resources directory, a payload (an
\* entry named as the resource or starting with the name and a dot, and not
\* ending in .resource-meta.xml) and a regular file <name>.resource-meta.xml;
\* otherwise it fails on one of the incomplete resources, as missing when
\* it has no payload (its own descriptor is not one) and as lacking its
\* descriptor otherwise.
C13_ValidationIff ==
  [][ phase = "validate" =>
        /\ (phase' = "package") <=> (IncompleteResources(itemsToZip) = {})
        /\ (phase' = "failed") <=> (IncompleteResources(itemsToZip) # {})
        /\ phase' = "failed" =>
             /\ error'.path \in IncompleteResources(itemsToZip)
             /\ error'.code = IF PayloadPresent(error'.path)
                                THEN "META_MISSING" ELSE "RESOURCE_MISSING" ]_vars

\* Validation refused as missing a resource of which the directory holds
\* the descriptor only.
C13_Witness ==
  /\ phase = "failed"
  /\ error.code = "RESOURCE_MISSING"
  /\ error.path \in FlatMapResources(itemsToZip)
  /\ DescriptorPresent(error.path)
  /\ ~PayloadPresent(error.path)

\* ------------------------------------------------------------------------
\* C14
\* ------------------------------------------------------------------------

\* The words of a line: its maximal runs of word characters.
WordsOf(line) ==
  LET isWord(i) == i >= 1 /\ i <= Len(line) /\ CharAt(line, i) \in IdentChars
      starts == { i \in 1..Len(line) : isWord(i) /\ ~isWord(i - 1) }
      endOf(i) == CHOOSE j \in i..Len(line) :
                    /\ \A k \in i..j : isWord(k)
                    /\ ~isWord(j + 1)
  IN  { SubSeq(line, i, endOf(i)) : i \in starts }

\* The words of the class source the scan was given.
SourceWords ==
  LET text == TextAt(PathJoin(DirectoryPath(params, userInput.name, "class"),
                              userInput.name \o ".cls"))
  IN  UNION { WordsOf(text[l]) : l \in 1..Len(text) }

Extracted == phase = "extracted"

\* C14: the scan of a class returns a known class name exactly when the
\* name is not the class's own and is one of the words of the source; a
\* name that occurs only inside a longer identifier is not returned, and
\* the class never lists itself.
C14_StandaloneWord ==
  (Extracted /\ userInput.type = "class") =>
     { d.name : d \in Range(itemsToZip[1].dependencies) }
       = { c \in Range(params.allClasses) : c # userInput.name /\ c \in SourceWords }

\* The scan of a source that names Qux only inside QuxName and MyQux, and
\* names the class itself: nothing is returned although Qux is known.
C14_Witness ==
  /\ Extracted
  /\ userInput = [ name |-> "Baz", type |-> "class", version |-> "" ]
  /\ params.allClasses = << "Baz", "Qux" >>
  /\ TextAt(ClsFile("Baz")) = << "QuxName n;", "MyQux m = Baz_Qux;" >>
  /\ itemsToZip[1].dependencies = <<>>

\* ------------------------------------------------------------------------
\* C15
\* ------------------------------------------------------------------------

\* The resource names a script file imports through @salesforce/resourceUrl.
ImportedResources(path) ==
  LET prefix == "@salesforce/resourceUrl/"
      text == TextAt(path)
  IN  { DropPrefix(text[i], prefix) :
          i \in { j \in 1..Len(text) :
                    StartsWith(text[j], prefix) /\ IsIdent(DropPrefix(text[j], prefix)) } }

\* C15: the entry of a component lists, each once, exactly the resource
\* names its .ts and .js files import through @salesforce/resourceUrl,
\* whether or not the resource is on disk; the entry of a class lists none.
C15_ResourcesListed ==
  \A i \in 1..Len(itemsToZip) :
    LET e == itemsToZip[i]
    IN  IF e.type = "component"
          THEN /\ NoDuplicates(e.staticresources)
               /\ Range(e.staticresources) =
                    ImportedResources(LwcFile(e.name, ".ts"))
                    \cup ImportedResources(LwcFile(e.name, ".js"))
          ELSE e.staticresources = <<>>

\* The entry of a component that imports Logo in both its script files and
\* a resource that is not on disk.
C15_Witness ==
  /\ Extracted
  /\ userInput.type = "component"
  /\ "Logo" \in ImportedResources(LwcFile("Foo", ".ts"))
  /\ "Logo" \in ImportedResources(LwcFile("Foo", ".js"))
  /\ "Missing" \in ImportedResources(LwcFile("Foo", ".js"))
  /\ ~PayloadPresent("Missing")
  /\ itemsToZip[1].staticresources = << "Logo", "Missing" >>

\* ------------------------------------------------------------------------
\* C16
\* ------------------------------------------------------------------------

SuccessLogged == Includes(log, "success")

\* C16: the success message is logged only at the end of a run in which
\* resolution returned a manifest, validation found every resource
\* complete, the archive was written, the one upload was answered OK and
\* the temporary file was deleted, no error having been raised; a run that
\* raised an error has logged no success message, and takes no further step.
C16_SuccessOnlyAfterAll ==
  /\ [](SuccessLogged =>
          /\ phase = "done"
          /\ error = NoError
          /\ Returned
          /\ IncompleteResources(itemsToZip) = {}
          /\ archive # {}
          /\ requests = 1
          /\ log = << "send", "response", "success" >>
          /\ tmpFile = "deleted")
  /\ [](error # NoError => phase = "failed" /\ ~SuccessLogged)
  /\ [][phase # "failed"]_vars

\* A run that logged the server's answer and then failed to delete the
\* temporary file.
C16_Witness ==
  /\ phase = "failed"
  /\ error.code = "UNLINK"
  /\ log = << "send", "response" >>

\* ------------------------------------------------------------------------
\* C17
\* ------------------------------------------------------------------------

\* The extracted items of a recognised kind, as they were before the
\* extraction, and their destinations.
ItemsBefore ==
  { n \in Range(extractedDirs(previous)) :
      getItemTypeFromFiles(previous, PathJoin(TmpExtractPath, n)).ok }

DestinationBefore(n) ==
  getDestination(TargetDirectory,
                 getItemTypeFromFiles(previous, PathJoin(TmpExtractPath, n)).value, n)

ResourcesBefore ==
  IF PathJoin(TmpExtractPath, "staticresources") \in DOMAIN previous
    THEN Range(previous[PathJoin(TmpExtractPath, "staticresources")].names)
    ELSE {}

ResourceDestination(file) ==
  PathJoin(PathJoin(TargetDirectory, "staticresources"), file)

\* The tree below a directory of a file system.
TreeIn(f, dir) ==
  { [ path |-> DropPrefix(p, dir), node |-> f[p] ] :
      p \in { q \in DOMAIN f : q = dir \/ StartsWith(q, dir \o "/") } }

\* Every extracted directory is of a recognised kind, and the destination
\* of some directory or resource file existed before the extraction.
ConflictOnly ==
  /\ ItemsBefore = Range(extractedDirs(previous))
  /\ \/ \E n \in ItemsBefore : DestinationBefore(n) \in DOMAIN previous
     \/ \E r \in ResourcesBefore : ResourceDestination(r) \in DOMAIN previous

DownloadEnded == previous # <<>> /\ phase \in {"done", "failed"}

\* C17: when the destination of an extracted directory or resource file
\* exists already, the extraction ends without error: the existing
\* destinations are as they were, and every other item and resource file is
\* at its destination with the contents it was extracted with.
C17_ConflictSkipped ==
  (DownloadEnded /\ ConflictOnly) =>
     /\ phase = "done"
     /\ \A n \in ItemsBefore :
          TreeIn(fs, DestinationBefore(n)) =
            IF DestinationBefore(n) \in DOMAIN previous
              THEN TreeIn(previous, DestinationBefore(n))
              ELSE TreeIn(previous, PathJoin(TmpExtractPath, n))
     /\ \A r \in ResourcesBefore :
          TreeIn(fs, ResourceDestination(r)) =
            IF ResourceDestination(r) \in DOMAIN previous
              THEN TreeIn(previous, ResourceDestination(r))
              ELSE TreeIn(previous, PathJoin(PathJoin(TmpExtractPath, "staticresources"), r))

\* ------------------------------------------------------------------------
\* C18
\* ------------------------------------------------------------------------

\* The dependencies of an artifact in the order extraction returns them.
DepsInOrder(a) ==
  LET r == getItemDependencies(fs, PATHS.LWC, a.name, a.type, params)
  IN  IF r.ok THEN r.value ELSE <<>>

\* The sequential depth-first traversal: an artifact not seen yet is
\* marked and listed, then its dependencies are visited one after the
\* other, each to its end before the next.
RECURSIVE DfsVisit(_, _)
RECURSIVE DfsEach(_, _)
DfsVisit(a, st) ==
  IF a \in st.seen THEN st
  ELSE DfsEach(DepsInOrder(a), [ order |-> Append(st.order, a), seen |-> st.seen \cup {a} ])

DfsEach(deps, st) ==
  IF deps = <<>> THEN st ELSE DfsEach(Tail(deps), DfsVisit(Head(deps), st))

SequentialPreOrder(a) == DfsVisit(a, [ order |-> <<>>, seen |-> {} ]).order

ArtifactsOf(items) == [ i \in 1..Len(items) |-> Artifact(items[i].name, items[i].type) ]

\* C18 as stated: the returned sequence is that of the sequential
\* depth-first pre-order traversal, whatever the interleaving.
C18_AsStated ==
  Returned => ArtifactsOf(itemsToZip) = SequentialPreOrder(Root)

\* rest continues a pre-order traversal of a tree of dependency edges whose
\* rightmost branch is stack: each artifact of rest is a dependency of an
\* artifact of the branch, later in that artifact's list than the child
\* taken before it.
RECURSIVE ContinuesPreOrder(_, _)
ContinuesPreOrder(stack, rest) ==
  IF rest = <<>> THEN TRUE
  ELSE \E k \in 1..Len(stack) :
         \E j \in stack[k].next..Len(DepsInOrder(stack[k].node)) :
           /\ DepsInOrder(stack[k].node)[j] = Head(rest)
           /\ ContinuesPreOrder(
                SubSeq(stack, 1, k - 1)
                  \o << [ node |-> stack[k].node, next |-> j + 1 ],
                        [ node |-> Head(rest), next |-> 1 ] >>,
                Tail(rest))

IsPreOrderOfSomeTree(order) ==
  /\ order # <<>>
  /\ order[1] = Root
  /\ ContinuesPreOrder(<< [ node |-> Root, next |-> 1 ] >>, Tail(order))

\* No artifact reachable from the root is a dependency of two of them.
NoSharedDependency ==
  \A a \in ReachableFrom({Root}) :
    Cardinality({ b \in ReachableFrom({Root}) : a \in DirectDeps(b) }) <= 1

\* C18 (amended): the returned sequence starts with the root and is a
\* pre-order traversal of a tree of dependency edges, the sub-trees of an
\* entry standing in the order of its dependencies; it holds the artifacts
\* the sequential traversal holds, each once, and is the sequential
\* depth-first pre-order when no artifact is a dependency of two artifacts.
\* Under which of the artifacts that list it a shared dependency stands
\* depends on the interleaving.
C18_PreOrderOfCallTree ==
  Returned =>
    /\ IsPreOrderOfSomeTree(ArtifactsOf(itemsToZip))
    /\ NoDuplicates(ArtifactsOf(itemsToZip))
    /\ Range(ArtifactsOf(itemsToZip)) = Range(SequentialPreOrder(Root))
    /\ NoSharedDependency => ArtifactsOf(itemsToZip) = SequentialPreOrder(Root)

\* A manifest in which a dependency shared by two branches stands under the
\* second: the sequence is not the sequential one.
C18_Witness ==
  /\ Returned
  /\ Len(itemsToZip) = 4
  /\ ArtifactsOf(itemsToZip) # SequentialPreOrder(Root)

\* ------------------------------------------------------------------------
\* C19
\* ------------------------------------------------------------------------

\* C19: no entry of the manifest lists a dependency twice.
C19_NoDuplicateDependencies ==
  \A i \in 1..Len(itemsToZip) : NoDuplicates(itemsToZip[i].dependencies)

\* ------------------------------------------------------------------------
\* C20
\* ------------------------------------------------------------------------

\* The artifact has a directory the resolver knows.
HasKnownDirectory(a) ==
  IF a.type = "component" THEN Includes(params.allComponents, a.name)
  ELSE a.name \in DOMAIN params.classNameToDir

\* The names the files of a component reference: tags, c/ imports and apex
\* imports, known or not.
ReferencedBy(name) ==
  LET f == LwcFiles(PATHS.LWC, name)
      texts == TextAt(f.htmlFile) \o TextAt(f.tsFile) \o TextAt(f.jsFile)
      hit(t) == { r \in { RegexExec(HtmlTagRegex, t), RegexExec(LwcImportRegex, t),
                          RegexExec(ApexImportRegex, t) } : r.matched }
  IN  { r.name : r \in UNION { hit(texts[i]) : i \in 1..Len(texts) } }

\* C20: every dependency recorded in an entry, and every artifact the
\* resolver is invoked for, belongs to the scanned inventory and has a known
\* directory; no run ends on a class without a directory.
C20_OnlyInventory ==
  /\ \A i \in 1..Len(itemsToZip) :
       \A d \in Range(itemsToZip[i].dependencies) :
         Artifact(d.name, d.type) \in Inventory
  /\ phase \in {"resolve", "validate", "package", "archive", "send", "unlink", "done"} =>
       \A c \in 1..Len(calls) :
         /\ Artifact(calls[c].name, calls[c].type) \in Inventory
         /\ HasKnownDirectory(Artifact(calls[c].name, calls[c].type))
         /\ calls[c].pc = "wait" =>
              \A d \in Range(calls[c].item.dependencies) : Artifact(d.name, d.type) \in Inventory
  /\ phase = "failed" => error.code # "NODIR"

\* A deploy that succeeded for a component importing a method of a class
\* the inventory does not hold.
C20_Witness ==
  /\ phase = "done"
  /\ Root = Foo
  /\ "Foo" \in ReferencedBy("Foo")
  /\ Artifact("Foo", "class") \notin Inventory
  /\ Len(itemsToZip) = 4

\* ------------------------------------------------------------------------
\* C21  The stages of a deploy run execute strictly one after another:
\*      validation starts only when every collectDependencies invocation
\*      has returned, the temporary archive is opened only when validation
\*      has passed, the upload request is sent only when the archive is
\*      finalized and written, and the temporary archive is deleted only
\*      when the upload has been answered.
\* ------------------------------------------------------------------------

ResolutionComplete ==
  /\ calls # <<>>
  /\ \A c \in 1..Len(calls) : calls[c].pc = "wait"

ValidationComplete ==
  /\ itemsToZip = ResultOf(calls, 1)
  /\ \A n \in staticResources : CheckStaticResource(fs, n).ok

ArchiveComplete ==
  /\ tmpFile = "exists"
  /\ archive = ArchiveEntries(itemsToZip, staticResources, userInput, params.classNameToDir)

UploadComplete ==
  /\ requests = 1
  /\ Len(log) >= 2
  /\ log[Len(log)] = "response"

C21_StagesInOrder ==
  [][ /\ (phase # "validate" /\ phase' = "validate") =>
           phase = "resolve" /\ ResolutionComplete
      /\ (tmpFile = "none" /\ tmpFile' # "none") =>
           phase = "package" /\ ResolutionComplete /\ ValidationComplete
      /\ requests' # requests =>
           phase = "send" /\ ResolutionComplete /\ ValidationComplete /\ ArchiveComplete
      /\ (tmpFile # "deleted" /\ tmpFile' = "deleted") =>
           /\ phase = "unlink"
           /\ ResolutionComplete /\ ValidationComplete /\ ArchiveComplete
           /\ UploadComplete ]_vars

\* A run that succeeded with a manifest of several entries and a resource.
C21_Witness ==
  /\ phase = "done"
  /\ tmpFile = "deleted"
  /\ Len(itemsToZip) >= 3
  /\ staticResources # {}
  /\ requests = 1


\* ------------------------------------------------------------------------
\* C22  Whenever createDeploymentPackage has completed, the archive holds,
\*      for every static resource name of the manifest, its payload and
\*      its descriptor, each an existing node of the resources directory
\*      stored under staticresources/<basename>, together with
\*      metadata.json and registry-deps.json.
\* ------------------------------------------------------------------------

IsPayloadOf(file, resName) ==
  /\ (file = resName \/ StartsWith(file, resName \o "."))
  /\ ~EndsWith(file, META_SUFFIX)

StoredUnderStaticResources(e) ==
  /\ e.op = "file"
  /\ e.source \in DOMAIN fs
  /\ e.source = PathJoin(PATHS.STATIC_RESOURCES, Basename(e.source))
  /\ e.name = "staticresources/" \o Basename(e.source)

C22_ResourcesAndDocuments ==
  phase \in {"send", "unlink", "done"} =>
    /\ \A r \in FlatMapResources(itemsToZip) :
         /\ \E e \in archive :
              StoredUnderStaticResources(e) /\ IsPayloadOf(Basename(e.source), r)
         /\ \E e \in archive :
              /\ StoredUnderStaticResources(e)
              /\ Basename(e.source) = r \o META_SUFFIX
              /\ fs[e.source].kind = "file"
    /\ \E e \in archive : e.op = "append" /\ e.name = "metadata.json" /\ e.source = "metadata"
    /\ \E e \in archive :
         e.op = "append" /\ e.name = "registry-deps.json" /\ e.source = "itemsToZip"

\* An archive was written for a manifest that references a resource.
C22_Witness ==
  /\ phase = "send"
  /\ FlatMapResources(itemsToZip) # {}
  /\ Len(itemsToZip) >= 2
  /\ \E e \in archive : e.op = "file"


\* ------------------------------------------------------------------------
\* C23  Listing the subdirectories of an artifact root yields the empty
\*      sequence, and no error, when the root is absent or cannot be
\*      read: the scan of such a project goes on with no artifact of
\*      that kind.
\* ------------------------------------------------------------------------

UnlistedRoots == { base \in { PATHS.LWC, PATHS.APEX } : ~readdir(fs, base).ok }

C23_EmptyWhenUnlisted ==
  (phase # "scan" /\ UnlistedRoots # {}) =>
    /\ \A base \in UnlistedRoots : safeListDirNamesAsync(fs, base) = Ok(<<>>)
    /\ phase # "failed"


\* ------------------------------------------------------------------------
\* C24  During dependency extraction the absence of an inspected source
\*      file of an artifact (the .html, .ts or .js file of a component,
\*      the .cls file of a class) is not an error: the extraction of the
\*      artifact succeeds, and the command never fails on the absence of
\*      such a file.
\* ------------------------------------------------------------------------

InspectedFiles(name, type) ==
  IF type = "component"
    THEN { LwcFile(name, ".html"), LwcFile(name, ".ts"), LwcFile(name, ".js") }
    ELSE IF name \in DOMAIN params.classNameToDir
           THEN { PathJoin(params.classNameToDir[name], name \o ".cls") }
           ELSE {}

OnlyAbsences(files) ==
  /\ \E f \in files : f \notin DOMAIN fs
  /\ \A f \in files : f \in DOMAIN fs => fs[f].kind = "file"

C24_AbsentFileIsEmpty ==
  /\ \A c \in 1..Len(calls) :
       OnlyAbsences(InspectedFiles(calls[c].name, calls[c].type)) =>
         getItemDependencies(fs, PATHS.LWC, calls[c].name, calls[c].type, params).ok
  /\ phase = "failed" =>
       ~(/\ error.code = "ENOENT"
         /\ \E c \in 1..Len(calls) :
              error.path \in InspectedFiles(calls[c].name, calls[c].type))


\* ------------------------------------------------------------------------
\* C25  One deploy run sends at most one upload request: the request is
\*      the first of the run, and once the run has failed on a network
\*      error or on a response that is not OK no further request is sent.
\* ------------------------------------------------------------------------

UploadFailed ==
  /\ phase = "failed"
  /\ error.code \in { "HTTP", "NETWORK" }

C25_SingleUpload ==
  [][ /\ requests' # requests =>
           requests = 0 /\ requests' = 1 /\ phase = "send" /\ error = NoError
      /\ UploadFailed => requests' = requests ]_vars

\* The one request of the run was refused by the server.
C25_Witness ==
  /\ UploadFailed
  /\ error.code = "HTTP"
  /\ requests = 1
  /\ log[Len(log)] = "send"


\* ------------------------------------------------------------------------
\* The resolver of the compiled command, lib/commands/registry/deploy.js
\* ------------------------------------------------------------------------

\* Bound on the collectDepsToZipAsync invocations of one resolution.
MaxLibCalls == 8

\* safeListDirNamesAsync of the compiled command: the entries of base that
\* are directories, and [] when base cannot be listed.
libSafeListDirNamesAsync(f, base) ==
  LET files == readdir(f, base)
  IN  IF ~files.ok THEN <<>>
      ELSE SelectSeq(files.value, LAMBDA file : isDirectory(f, base, file))

\* findAllClassesAsync of the compiled command: a listing error is ignored
\* and leaves both results empty.
libFindAllClassesAsync(f, basePathApex) ==
  LET listing == readdir(f, basePathApex)
      classDirs == IF listing.ok
                     THEN SelectSeq(listing.value,
                                    LAMBDA e : isDirectory(f, basePathApex, e))
                     ELSE <<>>
      dirPath(d) == PathJoin(basePathApex, d)
      failed == ~listing.ok \/ \E d \in Range(classDirs) : ~readdir(f, dirPath(d)).ok
      found == Flat([ i \in 1..Len(classDirs) |->
                 LET files == SelectSeq(readdir(f, dirPath(classDirs[i])).value,
                                        IsClassFile)
                 IN  [ j \in 1..Len(files) |->
                        [ className |-> basenameNoExt(files[j], ".cls"),
                          dirPath |-> dirPath(classDirs[i]) ] ] ])
      lastOf(c) == CHOOSE i \in 1..Len(found) :
                     /\ found[i].className = c
                     /\ \A j \in 1..Len(found) : found[j].className = c => j <= i
  IN  IF failed THEN [ allClasses |-> <<>>, classNameToDir |-> << >> ]
      ELSE [ allClasses |-> [ i \in 1..Len(found) |-> found[i].className ],
             classNameToDir |-> [ c \in { found[i].className : i \in 1..Len(found) }
                                    |-> found[lastOf(c)].dirPath ] ]

\* fileExistsAsync: fs.access succeeds.
fileExistsAsync(f, filePath) == filePath \in DOMAIN f

\* The body shared by extractHTMLDependenciesAsync and the two
\* extractTsJs...DependenciesAsync: a file that is not there gives [], the
\* captures of the pattern are collected in a Set.
extractWithRegexAsync(f, filePath, regex) ==
  IF ~fileExistsAsync(f, filePath) THEN Ok(<<>>)
  ELSE LET code == readFile(f, filePath)
       IN  IF code.ok THEN Ok(Dedupe(MatchAll(code.value, regex))) ELSE code

extractHTMLDependenciesAsync(f, filePath) ==
  extractWithRegexAsync(f, filePath, HtmlTagRegex)

extractTsJsLwcDependenciesAsync(f, filePath) ==
  extractWithRegexAsync(f, filePath, LwcImportRegex)

extractTsJsApexDependenciesAsync(f, filePath) ==
  extractWithRegexAsync(f, filePath, ApexImportRegex)

\* code.includes(className), for a name that holds no line break.
CodeIncludes(code, className) ==
  \E l \in 1..Len(code) :
    \E i \in 1..(Len(code[l]) - Len(className) + 1) :
      SubSeq(code[l], i, i + Len(className) - 1) = className

\* extractApexDependenciesAsync
extractApexDependenciesAsync(f, clsFilePath, allClassNames, selfClassName) ==
  IF ~fileExistsAsync(f, clsFilePath) THEN Ok(<<>>)
  ELSE LET code == readFile(f, clsFilePath)
       IN  IF ~code.ok THEN code
           ELSE Ok(SelectSeq(allClassNames, LAMBDA className :
                     className # selfClassName /\ CodeIncludes(code.value, className)))

\* findStaticResourcesUsedForComponentAsync
findStaticResourcesUsedForComponentAsync(f, componentDir) ==
  LET read(ext) ==
        LET filePath == PathJoin(componentDir, Basename(componentDir) \o ext)
        IN  IF ~fileExistsAsync(f, filePath) THEN Ok(<<>>)
            ELSE LET code == readFile(f, filePath)
                 IN  IF code.ok THEN Ok(MatchAll(code.value, ResourceImportRegex))
                     ELSE code
      results == << read(".ts"), read(".js") >>
  IN  IF results[1].ok /\ results[2].ok
        THEN Ok(Dedupe(results[1].value \o results[2].value))
        ELSE [ ok |-> FALSE, errors |-> { r \in Range(results) : ~r.ok } ]

\* getItemDependenciesAsync: the names found are kept when the inventory
\* holds them, in the order found, a name once per list that holds it.
getItemDependenciesAsync(f, depName, depType, p) ==
  IF depType = "component"
    THEN LET compDir == PathJoin(PATHS.LWC, depName)
             htmlDeps == extractHTMLDependenciesAsync(f, PathJoin(compDir, depName \o ".html"))
             tsLwcDeps == extractTsJsLwcDependenciesAsync(f, PathJoin(compDir, depName \o ".ts"))
             jsLwcDeps == extractTsJsLwcDependenciesAsync(f, PathJoin(compDir, depName \o ".js"))
             tsApexDeps == extractTsJsApexDependenciesAsync(f, PathJoin(compDir, depName \o ".ts"))
             jsApexDeps == extractTsJsApexDependenciesAsync(f, PathJoin(compDir, depName \o ".js"))
             all == { htmlDeps, tsLwcDeps, jsLwcDeps, tsApexDeps, jsApexDeps }
             lwc == SelectSeq(htmlDeps.value \o tsLwcDeps.value \o jsLwcDeps.value,
                              LAMBDA d : Includes(p.allComponents, d))
             apex == SelectSeq(tsApexDeps.value \o jsApexDeps.value,
                               LAMBDA d : Includes(p.allClasses, d))
         IN  IF \E r \in all : ~r.ok
               THEN [ ok |-> FALSE, errors |-> { r \in all : ~r.ok } ]
               ELSE Ok([ i \in 1..Len(lwc) |-> [ name |-> lwc[i], type |-> "component" ] ]
                       \o [ i \in 1..Len(apex) |-> [ name |-> apex[i], type |-> "class" ] ])
    ELSE LET mainClsFile == IF depName \in DOMAIN p.classNameToDir
                              THEN PathJoin(p.classNameToDir[depName], depName \o ".cls")
                              ELSE ""
             apexDeps == extractApexDependenciesAsync(f, mainClsFile, p.allClasses,
                                                      depName)
         IN  IF ~apexDeps.ok THEN [ ok |-> FALSE, errors |-> { apexDeps } ]
             ELSE Ok([ i \in 1..Len(apexDeps.value) |->
                         [ name |-> apexDeps.value[i], type |-> "class" ] ])

\* isForbiddenFile
isForbiddenFile(filePath) ==
  Includes(FORBIDDEN_EXTENSIONS, toLowerCase(extname(Basename(filePath))))

\* The loop of collectDepsToZipAsync over walkDirSync(dir): the files of the
\* tree in depth-first order, up to the first refused file or the first
\* directory that cannot be listed.
RECURSIVE walkDirSync(_, _)
RECURSIVE walkDirSyncEntries(_, _, _)
walkDirSync(f, dir) ==
  LET entries == readdir(f, dir)
  IN  IF ~entries.ok THEN entries ELSE walkDirSyncEntries(f, dir, entries.value)

walkDirSyncEntries(f, dir, entries) ==
  IF entries = <<>> THEN Ok(TRUE)
  ELSE LET entryPath == PathJoin(dir, Head(entries))
           first == IF isDirectory(f, dir, Head(entries)) THEN walkDirSync(f, entryPath)
                    ELSE IF isForbiddenFile(entryPath)
                      THEN Forbidden(entryPath, extname(Basename(entryPath)))
                    ELSE Ok(TRUE)
       IN  IF first.ok THEN walkDirSyncEntries(f, dir, Tail(entries)) ELSE first

\* One invocation of collectDepsToZipAsync that went past its seen test:
\* its arguments, its own copy newSeen of the set it was given, and where
\* it stands ("extract": awaiting the scans, "wait": awaiting its sub-calls).
NewLibCall(dep, isRoot, parent, seenGiven) ==
  [ name |-> dep.name, type |-> dep.type, isRoot |-> isRoot, parent |-> parent,
    newSeen |-> seenGiven \cup { Key(dep.type, dep.name) },
    pc |-> "extract", item |-> << >>, kids |-> <<>> ]

\* The synchronous start of the sub-calls, thisDeps.map(dep =>
\* collectDepsToZipAsync(dep.name, dep.type, false, params, newSeen)): each
\* tests the set its parent hands it, copies it and walks its directory.
RECURSIVE LibSpawnAll(_, _, _, _)
LibSpawnAll(deps, parent, newSeen, st) ==
  IF deps = <<>> THEN st
  ELSE LET d == Head(deps)
           dirToAdd == DirectoryPath(params, d.name, d.type)
       IN  IF Key(d.type, d.name) \in newSeen
             THEN LibSpawnAll(Tail(deps), parent, newSeen,
                              [ st EXCEPT !.kids = Append(@, 0) ])
             ELSE LibSpawnAll(Tail(deps), parent, newSeen,
                    [ calls |-> Append(st.calls, NewLibCall(d, FALSE, parent, newSeen)),
                      kids |-> Append(st.kids, Len(st.calls) + 1),
                      errors |-> st.errors \cup
                                 (IF walkDirSync(fs, dirToAdd).ok THEN {}
                                  ELSE { walkDirSync(fs, dirToAdd) }) ])

\* const item = { name, type, dependencies, staticresources,
\*                ...(isRoot ? { version } : {}) }
LibItem(c, thisDeps, resources, version) ==
  [ name |-> c.name, type |-> c.type, dependencies |-> thisDeps,
    staticresources |-> resources,
    version |-> IF c.isRoot THEN << version >> ELSE <<>> ]

\* The projects the compiled resolver is run on.
LibProjects ==
  { ProjectFs(refs, AllClean, "complete", "plain") : refs \in RefSets }
  \cup { ProjectFs(refs, AllClean, "complete", "shared") : refs \in SUBSET SharedRefs }
  \cup { ProjectFs({1, 3}, AllClean, "complete", "empty") }
  \cup { ProjectFs(refs, AllClean, "complete", "dirsource") : refs \in SUBSET DirSourceRefs }
  \cup { ProjectFs(ScenarioRefs, [ AllClean EXCEPT ![i] = choice ], "complete", "plain") :
           i \in 1..4, choice \in ExtraChoices }
  \cup RootlessProjects

InitLib ==
  /\ fs \in LibProjects
  /\ phase = "scan"
  /\ params = NoParams
  /\ userInput = NoInput
  /\ seen = {}
  /\ calls = <<>>
  /\ itemsToZip = <<>>
  /\ staticResources = {}
  /\ tmpFile = "none"
  /\ archive = {}
  /\ requests = 0
  /\ log = <<>>
  /\ error = NoError
  /\ runNo = 1
  /\ previous = <<>>

\* run() of the compiled command up to the prompts: the two listings.
LibScan ==
  /\ phase = "scan"
  /\ LET classes == libFindAllClassesAsync(fs, PATHS.APEX)
     IN  params' = [ allComponents |-> libSafeListDirNamesAsync(fs, PATHS.LWC),
                     allClasses |-> classes.allClasses,
                     classNameToDir |-> classes.classNameToDir ]
  /\ phase' = "prompt"
  /\ UNCHANGED << fs, userInput, seen, calls, itemsToZip, staticResources, tmpFile,
                  archive, requests, log, error, runNo, previous >>

\* getItems and the prompts, then the synchronous start of
\* collectDepsToZipAsync(name, type, true, params) with an empty seen set.
LibChoose ==
  /\ phase = "prompt"
  /\ \E type \in {"component", "class"} :
       LET items == IF type = "component" THEN params.allComponents ELSE params.allClasses
       IN  IF items = <<>>
             THEN /\ Fail(Err("NOITEM", type))
                  /\ UNCHANGED << userInput, calls >>
             ELSE \E name \in Range(items), version \in Versions :
                    LET walk == walkDirSync(fs, DirectoryPath(params, name, type))
                    IN  /\ userInput' = [ name |-> name, type |-> type, version |-> version ]
                        /\ calls' = << NewLibCall([ name |-> name, type |-> type ],
                                                  TRUE, 0, {}) >>
                        /\ IF walk.ok THEN phase' = "resolve" /\ error' = error
                           ELSE Fail(walk)
  /\ UNCHANGED << fs, params, seen, itemsToZip, staticResources, tmpFile, archive,
                  requests, log, runNo, previous >>

\* collectDepsToZipAsync past its first await: the scans return, the entry
\* is built and the sub-calls are made, each with a copy of newSeen.
LibExtract(c) ==
  /\ phase = "resolve"
  /\ calls[c].pc = "extract"
  /\ LET thisDeps == getItemDependenciesAsync(fs, calls[c].name, calls[c].type, params)
         resources == IF calls[c].type = "component"
                        THEN findStaticResourcesUsedForComponentAsync(
                               fs, PathJoin(PATHS.LWC, calls[c].name))
                        ELSE Ok(<<>>)
     IN  IF thisDeps.ok /\ resources.ok
           THEN LET item == LibItem(calls[c], thisDeps.value, resources.value,
                                    userInput.version)
                    st == LibSpawnAll(thisDeps.value, c, calls[c].newSeen,
                                      [ calls |-> calls, kids |-> <<>>, errors |-> {} ])
                IN  /\ Len(st.calls) <= MaxLibCalls
                    /\ calls' = [ st.calls EXCEPT ![c].pc = "wait", ![c].item = item,
                                                  ![c].kids = st.kids ]
                    /\ IF st.errors = {} THEN UNCHANGED << phase, error >>
                       ELSE \E e \in st.errors : Fail(e)
           ELSE /\ \E e \in UNION { r.errors : r \in { x \in {thisDeps, resources} : ~x.ok } } :
                     Fail(e)
                /\ calls' = calls
  /\ UNCHANGED << fs, params, userInput, seen, itemsToZip, staticResources, tmpFile,
                  archive, requests, log, runNo, previous >>

\* Every invocation has returned [item, ...subDepsArrays.flat()]: run() goes
\* on with the list.
LibReturn ==
  /\ phase = "resolve"
  /\ \A c \in 1..Len(calls) : calls[c].pc = "wait"
  /\ itemsToZip' = ResultOf(calls, 1)
  /\ phase' = "resolved"
  /\ UNCHANGED << fs, params, userInput, seen, calls, staticResources, tmpFile, archive,
                  requests, log, error, runNo, previous >>

NextLib ==
  \/ LibScan
  \/ LibChoose
  \/ \E c \in 1..Len(calls) : LibExtract(c)
  \/ LibReturn

SpecLib == InitLib /\ [][NextLib]_vars

\* ------------------------------------------------------------------------
\* C26  The list returned by the compiled resolver collectDepsToZipAsync
\*      holds exactly one entry per distinct kind and name: no kind:name
\*      pair twice, also when an artifact is a dependency of two sibling
\*      branches, and an entry for every artifact an entry depends on.
\* ------------------------------------------------------------------------

C26_OneEntryPerKey ==
  phase = "resolved" =>
    /\ NoDuplicates(EntryKeys(itemsToZip))
    /\ \A i \in 1..Len(itemsToZip) :
         \A d \in Range(itemsToZip[i].dependencies) :
           Key(d.type, d.name) \in Range(EntryKeys(itemsToZip))


\* ------------------------------------------------------------------------
\* C27  In every manifest returned by collectDependencies the root's entry
\*      is the first, and every other entry stands after an entry whose
\*      dependencies list names it, whatever the interleaving of the
\*      concurrent recursive calls.
\* ------------------------------------------------------------------------

NamedBefore(items, j) ==
  \E i \in 1..(j - 1) :
    Artifact(items[j].name, items[j].type) \in Range(items[i].dependencies)

C27_ListedAfterADependent ==
  Returned =>
    /\ Artifact(itemsToZip[1].name, itemsToZip[1].type) = Root
    /\ \A j \in 2..Len(itemsToZip) : NamedBefore(itemsToZip, j)

\* A manifest of four entries in which the last entry is named by an entry
\* other than the root's, and in which an artifact named by two entries
\* stands before one of them.
C27_Witness ==
  /\ Returned
  /\ Len(itemsToZip) = 4
  /\ Artifact(itemsToZip[4].name, itemsToZip[4].type) \notin Range(itemsToZip[1].dependencies)
  /\ \E i, j \in 2..4 :
       /\ i < j
       /\ Artifact(itemsToZip[i].name, itemsToZip[i].type) \in Range(itemsToZip[j].dependencies)


\* ------------------------------------------------------------------------
\* C28  The dependencies list of every entry of a returned manifest holds
\*      exactly the direct dependencies extraction finds for the artifact,
\*      whichever artifacts were already seen when the entry was built;
\*      only the expansion of a seen artifact is skipped, so every
\*      dependency an entry names has an entry of its own.
\* ------------------------------------------------------------------------

C28_DependenciesComplete ==
  Returned =>
    \A i \in 1..Len(itemsToZip) :
      /\ Range(itemsToZip[i].dependencies)
           = DirectDeps(Artifact(itemsToZip[i].name, itemsToZip[i].type))
      /\ Range(itemsToZip[i].dependencies) \subseteq EntryArtifacts(itemsToZip)

\* A manifest with an entry that names the root, seen before any entry was
\* built, and an entry that names an artifact expanded under another entry.
C28_Witness ==
  /\ Returned
  /\ \E j \in 2..Len(itemsToZip) : Root \in Range(itemsToZip[j].dependencies)
  /\ \E i, j \in 1..Len(itemsToZip) :
       /\ i # j
       /\ Range(itemsToZip[i].dependencies) \cap Range(itemsToZip[j].dependencies) # {}


\* ------------------------------------------------------------------------
\* C29  No two entries of the manifest are added to the archive under the
\*      same directory path: the paths createDeploymentPackage stores the
\*      artifact directories under are pairwise distinct across the
\*      manifest.
\* ------------------------------------------------------------------------

ArchivePathOf(item) == item.name

C29_DistinctArchivePaths ==
  /\ \A e1, e2 \in archive :
       (e1.op = "directory" /\ e2.op = "directory" /\ e1.name = e2.name) => e1 = e2
  /\ archive # {} =>
       \A i, j \in 1..Len(itemsToZip) :
         ArchivePathOf(itemsToZip[i]) = ArchivePathOf(itemsToZip[j]) => i = j


\* ------------------------------------------------------------------------
\* The delete command, src/commands/registry/delete.ts
\* ------------------------------------------------------------------------

\* Bound on the entries the catalog holds per kind.
MaxCatalog == 2

\* The entries a catalog may hold: a name and the versions published.
CatalogEntries ==
  { [ name |-> "Foo", versions |-> << "1.0.0" >> ],
    [ name |-> "Foo", versions |-> << "1.0.0", "2.0.0" >> ],
    [ name |-> "Bar", versions |-> <<>> ] }

CatalogLists ==
  UNION { [ 1..n -> CatalogEntries ] : n \in 0..MaxCatalog }

\* The documents registrySchema.parse accepts.
Catalogs == { [ component |-> c, class |-> k ] : c \in CatalogLists, k \in CatalogLists }

NoAnswers == [ type |-> "", name |-> "", version |-> "", ok |-> "unanswered" ]

\* items.find(element => element.name === name)
Find(items, name) ==
  items[CHOOSE i \in 1..Len(items) :
          /\ items[i].name = name
          /\ \A j \in 1..Len(items) : items[j].name = name => i <= j]

\* let url = `${server}/delete/${type}/${name}`; if (version) url += `/${version}`
DeleteUrl(type, name, version) ==
  "/delete/" \o type \o "/" \o name \o (IF version # "" THEN "/" \o version ELSE "")

Request(method, url) == [ method |-> method, url |-> url ]

InitDelete ==
  /\ fs = << >>
  /\ phase = "type"
  /\ params = [ component |-> <<>>, class |-> <<>> ]
  /\ userInput = NoAnswers
  /\ seen = {}
  /\ calls = <<>>
  /\ itemsToZip = <<>>
  /\ staticResources = {}
  /\ tmpFile = "none"
  /\ archive = {}
  /\ requests = 0
  /\ log = <<>>
  /\ error = NoError
  /\ runNo = 1
  /\ previous = <<>>

\* 1. the kind is chosen.
PromptType ==
  /\ phase = "type"
  /\ \E type \in { "component", "class" } : userInput' = [ userInput EXCEPT !.type = type ]
  /\ phase' = "catalog"
  /\ UNCHANGED << fs, params, seen, calls, itemsToZip, staticResources, tmpFile, archive,
                  requests, log, error, runNo, previous >>

\* GET /catalog: a network error, a response that is not OK and a document
\* the schema refuses end the command; with no item of the kind the command
\* logs it and returns.
FetchCatalog ==
  /\ phase = "catalog"
  /\ calls' = Append(calls, Request("GET", "/catalog"))
  /\ \E outcome \in { "ok", "http", "network", "invalid" } :
       IF outcome = "ok"
         THEN \E catalog \in Catalogs :
                /\ params' = catalog
                /\ error' = error
                /\ IF Len(catalog[userInput.type]) = 0
                     THEN log' = Append(log, "nothing") /\ phase' = "done"
                     ELSE log' = log /\ phase' = "name"
         ELSE /\ Fail(Err("CATALOG", outcome))
              /\ UNCHANGED << params, log >>
  /\ UNCHANGED << fs, userInput, seen, itemsToZip, staticResources, tmpFile, archive,
                  requests, runNo, previous >>

\* The name is chosen among the items; the version prompt follows when the
\* entry found holds more than one version.
PromptName ==
  /\ phase = "name"
  /\ \E name \in { params[userInput.type][i].name : i \in 1..Len(params[userInput.type]) } :
       LET selectedEntry == Find(params[userInput.type], name)
       IN  /\ userInput' = [ userInput EXCEPT !.name = name ]
           /\ phase' = IF Len(selectedEntry.versions) > 1 THEN "version" ELSE "confirm"
  /\ UNCHANGED << fs, params, seen, calls, itemsToZip, staticResources, tmpFile, archive,
                  requests, log, error, runNo, previous >>

\* One version or all of them: version = which !== 'ALL' ? which : null
PromptVersion ==
  /\ phase = "version"
  /\ \E which \in Range(Find(params[userInput.type], userInput.name).versions) \cup { "ALL" } :
       userInput' = [ userInput EXCEPT !.version = IF which # "ALL" THEN which ELSE "" ]
  /\ phase' = "confirm"
  /\ UNCHANGED << fs, params, seen, calls, itemsToZip, staticResources, tmpFile, archive,
                  requests, log, error, runNo, previous >>

\* The confirmation with the answer left aside: the command goes on to the
\* request whatever the operator answered.
ConfirmIgnored ==
  /\ phase = "confirm"
  /\ \E ok \in BOOLEAN :
       userInput' = [ userInput EXCEPT !.ok = IF ok THEN "yes" ELSE "no" ]
  /\ phase' = "delete"
  /\ UNCHANGED << fs, params, seen, calls, itemsToZip, staticResources, tmpFile, archive,
                  requests, log, error, runNo, previous >>

\* 4. the confirmation: declined, the command logs it and returns.
Confirm ==
  /\ phase = "confirm"
  /\ \E ok \in BOOLEAN :
       /\ userInput' = [ userInput EXCEPT !.ok = IF ok THEN "yes" ELSE "no" ]
       /\ IF ok THEN phase' = "delete" /\ log' = log
          ELSE phase' = "done" /\ log' = Append(log, "cancelled")
  /\ UNCHANGED << fs, params, seen, calls, itemsToZip, staticResources, tmpFile, archive,
                  requests, error, runNo, previous >>

\* 5. the DELETE request and its answer.
SendDelete ==
  /\ phase = "delete"
  /\ calls' = Append(calls, Request("DELETE",
                 DeleteUrl(userInput.type, userInput.name, userInput.version)))
  /\ requests' = requests + 1
  /\ \E outcome \in { "ok", "http", "network" } :
       IF outcome = "ok"
         THEN /\ log' = Append(log, "deleted")
              /\ phase' = "done"
              /\ error' = error
         ELSE /\ Fail(Err(IF outcome = "http" THEN "HTTP" ELSE "NETWORK", "/delete"))
              /\ log' = log
  /\ UNCHANGED << fs, params, userInput, seen, itemsToZip, staticResources, tmpFile,
                  archive, runNo, previous >>

NextDelete ==
  \/ PromptType
  \/ FetchCatalog
  \/ PromptName
  \/ PromptVersion
  \/ Confirm
  \/ SendDelete

SpecDelete == InitDelete /\ [][NextDelete]_vars

\* ------------------------------------------------------------------------
\* C30  In the delete command a DELETE request is sent only after the
\*      operator answered the confirmation with yes, and it is the only
\*      one; when the confirmation is declined, or the catalog holds no
\*      item of the chosen kind, the run ends and no DELETE request is
\*      ever sent.
\* ------------------------------------------------------------------------

DeleteSent == \E i \in 1..Len(calls) : calls[i].method = "DELETE"

Declined == userInput.ok = "no"

NothingToDelete == Includes(log, "nothing")

C30_DeleteOnlyConfirmed ==
  [][ /\ (DeleteSent' /\ ~DeleteSent) =>
           /\ userInput.ok = "yes"
           /\ Len(params[userInput.type]) > 0
           /\ requests = 0
      /\ (Declined' \/ NothingToDelete') => (~DeleteSent' /\ phase' = "done")
      /\ (Declined \/ NothingToDelete) => UNCHANGED vars ]_vars

\* A confirmed deletion of one version of an entry that holds two.
C30_Witness ==
  /\ DeleteSent
  /\ userInput.ok = "yes"
  /\ userInput.version = "2.0.0"
  /\ calls[Len(calls)] = Request("DELETE", "/delete/component/Foo/2.0.0")
  /\ phase = "done"

====
